---------------------------- MODULE Spec2Model ----------------------------
(***************************************************************************)
(* Connection establishment and resilience of the userbot:                 *)
(*                                                                         *)
(*   - the bounded probe scheduler, client.py: test_single_proxy and       *)
(*     find_working_proxy_async (specification SpecProbe);                 *)
(*   - the connection supervisor, modules/reconnector.py:                  *)
(*     run_with_reconnect (specification SpecSupervisor);                  *)
(*   - the proxy link parser, client.py: extract_proxy_params              *)
(*     (specification SpecParse);                                          *)
(*   - the proxy file loader, client.py: load_and_test_proxies_from_file   *)
(*     (specification SpecLoad), and the start of the program from the     *)
(*     import of client.py to run_with_reconnect (specification            *)
(*     SpecStartup).                                                       *)
(*                                                                         *)
(* Probe tasks all run test_single_proxy and differ only in the candidate  *)
(* they carry, so the model keeps, for every position of that coroutine,   *)
(* the NUMBER of tasks standing there.  Tasks start in list order and the  *)
(* semaphore wakes its waiters first-in first-out, so the tasks that are   *)
(* not yet admitted are always the last ones of the list.  A probe that    *)
(* has finished is named by its completion rank (1 for the first task to   *)
(* finish, 2 for the second, ...): asyncio.as_completed hands results to   *)
(* the caller in exactly that order.                                       *)
(***************************************************************************)
EXTENDS Integers, Sequences, FiniteSets, TLC

(* ------------------------------ constants ------------------------------ *)

\* asyncio.Semaphore(20), client.py line 75
SemaphoreValue == 20

\* config.py
BACKOFF_START == 1
BACKOFF_MAX == 300

(* -------------------------------- bounds ------------------------------- *)

\* longest proxy_list handed to find_working_proxy_async
MaxCandidates == 22

\* at most this many probes of one round are past connect() at a time:
\* inside disconnect(), or returned with their candidate
MaxWorking == 2

\* largest FloodWaitError.seconds the server sends
MaxFloodWait == 3

\* longest secret value of a link
MaxSecretLen == 4

\* probes of a round whose TelegramClient constructor raises
MaxRaising == 1

\* lines of the proxy file
MaxLines == 3

\* lines of the proxy file when the probes and the supervisor follow
MaxStartupLines == 2

\* proxies one call of save_proxies_to_file writes, at most
MaxSaved == 1

VARIABLES
    (* ---- find_working_proxy_async and its probe tasks ---- *)
    pc,            \* position of find_working_proxy_async
    nTasks,        \* len(tasks) = len(proxy_list)
    started,       \* tasks that have run their first step (list order)
    waiting,       \* tasks suspended in semaphore.acquire()
    woken,         \* tasks still inside acquire() that a release() has
                   \* given the slot to and that have not run since
    lastWake,      \* completion rank of the task whose release() gave a
                   \* slot to a queued task most recently, 0 when none
    connecting,    \* tasks suspended in `await temp_client.connect()`
    disconnecting, \* tasks suspended in `await temp_client.disconnect()`
    sem,           \* semaphore._value, the free slots
    completed,     \* how each finished task ended, in completion order
    doneQ,         \* finished tasks as_completed has not handed out yet
    consumed,      \* results the for loop has taken
    cancelReq,     \* p.cancel() has been called on every task not done
    result,        \* <<>>: None (or not returned yet); <<r>>: candidate of
                   \* the probe with completion rank r
    halfOpen,      \* probes cancelled after connect() was called and
                   \* before disconnect() was called
    lastEnd,       \* the await the task that finished last was in, and
                   \* how that await ended
    (* ---- run_with_reconnect ---- *)
    spc,           \* position of run_with_reconnect
    backoff_time,
    session_file,  \* os.path.exists(SESSION_FILENAME)
    lastError,     \* kind of the exception the except clauses of lines
                   \* 38-80 are handling / have last handled
    raised,        \* the exception a client call has last raised: its
                   \* kind, its seconds, the position of the call; tick
                   \* flips every time a call raises
    is_authorized, \* what client.is_user_authorized() last answered
    wait_time,     \* e.seconds of the last FloodWaitError
    slept,         \* argument of the last asyncio.sleep
    existsSeen,    \* what os.path.exists(SESSION_FILENAME) answered while
                   \* handling the current AuthKeyUnregisteredError
    deleteCalls,   \* os.remove calls made while handling the current
                   \* AuthKeyUnregisteredError
    (* ---- extract_proxy_params ---- *)
    xpc,           \* position of extract_proxy_params
    proxy_url,     \* its argument: the text of the link up to its query
                   \* (address) and, for each of the keys server, port
                   \* and secret, the values parse_qs gives for the key,
                   \* in order (a text is a sequence of characters)
    extracted,     \* what the call returned or raised
    (* ---- load_and_test_proxies_from_file, initialize_client_with_proxy ---- *)
    lpc,           \* position of the start-up code of client.py
    file_exists,   \* os.path.exists(PROXY_FILE)
    file_readable, \* open(PROXY_FILE, 'r', encoding='utf-8') and
                   \* readlines() succeed: the path is a file that may be
                   \* read and that holds UTF-8 text
    lines,         \* f.readlines(): each line is blank, a text that is no
                   \* link, or a link (given as proxy_url is); no line
                   \* when the file is missing or cannot be read
    line_no,       \* lines the loop of lines 106-113 has gone through
    proxy_tuples,  \* the candidates collected so far, in order
    proxy_info,    \* what asyncio.run(load_and_test_proxies_from_file())
                   \* gives: <<>> for None, else the scheduler's result
    connection     \* connection_type and connection_args of the client

probeVars == <<pc, nTasks, started, waiting, woken, lastWake, connecting,
               disconnecting, sem,
               completed, doneQ, consumed, cancelReq, result, halfOpen,
               lastEnd>>
supVars == <<spc, backoff_time, session_file, lastError, raised,
             is_authorized, wait_time, slept, existsSeen, deleteCalls>>
parseVars == <<xpc, proxy_url, extracted>>
loadVars == <<lpc, file_exists, file_readable, lines, line_no, proxy_tuples,
              proxy_info, connection>>
vars == <<probeVars, supVars, parseVars, loadVars>>

Min(a, b) == IF a <= b THEN a ELSE b
Max(a, b) == IF a >= b THEN a ELSE b

(***************************************************************************)
(*                       the bounded probe scheduler                       *)
(***************************************************************************)

\* how a task ends: it returns its candidate, it returns None, it is
\* cancelled, or another exception leaves its coroutine
Outcomes == {"Success", "Failure", "Cancelled", "Raised"}

\* tasks whose coroutine has ended (t.done())
Done == Len(completed)

\* every task of the round has ended
AllDone == Done = nTasks

\* tasks inside `async with semaphore`
InGate == connecting + disconnecting

\* probes that have returned their candidate so far
Successes ==
    Cardinality({i \in 1..Len(completed) : completed[i] = "Success"})

\* probes whose client constructor has raised so far
Raisings ==
    Cardinality({i \in 1..Len(completed) : completed[i] = "Raised"})

\* the supervisor is not running while the probes are
SupIdle ==
    /\ spc = "idle"
    /\ backoff_time = BACKOFF_START
    /\ session_file \in BOOLEAN
    /\ lastError = "none"
    /\ raised = [kind |-> "none", seconds |-> 0, at |-> "none", tick |-> 0]
    /\ is_authorized = FALSE
    /\ wait_time = 0
    /\ slept = 0
    /\ existsSeen = FALSE
    /\ deleteCalls = 0

\* extract_proxy_params is not being called
ParseIdle ==
    /\ xpc = "idle"
    /\ proxy_url = [address |-> <<>>,
                    server |-> <<>>, port |-> <<>>, secret |-> <<>>]
    /\ extracted = [kind |-> "pending", server |-> <<>>, port |-> 0,
                    secret |-> <<>>]

\* the connection before the client is built
NoConnection == [type |-> "none", proxy |-> <<>>]

\* the start-up code of client.py is not being followed
LoadIdle ==
    /\ lpc = "idle"
    /\ file_exists = FALSE
    /\ file_readable = FALSE
    /\ lines = <<>>
    /\ line_no = 0
    /\ proxy_tuples = <<>>
    /\ proxy_info = <<>>
    /\ connection = NoConnection

InitProbe ==
    /\ pc = "call"
    /\ nTasks \in 0..MaxCandidates
    /\ started = 0
    /\ waiting = 0
    /\ woken = 0
    /\ lastWake = 0
    /\ connecting = 0
    /\ disconnecting = 0
    /\ sem = SemaphoreValue
    /\ completed = <<>>
    /\ doneQ = <<>>
    /\ consumed = 0
    /\ cancelReq = FALSE
    /\ result = <<>>
    /\ halfOpen = 0
    /\ lastEnd = "none"
    /\ SupIdle
    /\ ParseIdle
    /\ LoadIdle


(* ------------------------- test_single_proxy --------------------------- *)

\* a gate that admits every task
CanAcquireAlways == TRUE

\* `async with semaphore` on entry: Semaphore.acquire() returns at once
\* when a slot is free and nobody queues for one, and suspends otherwise
CanAcquire == sem > 0 /\ waiting = 0

\* a slot that is given back on return only, not when CancelledError
\* passes through
ReleasedOnReturnOnly(w, c, d) ==
    /\ connecting' = c
    /\ disconnecting' = d
    /\ IF cancelReq
       THEN /\ waiting' = waiting
            /\ woken' = w
            /\ lastWake' = lastWake
            /\ sem' = sem
       ELSE IF waiting > 0
            THEN /\ waiting' = waiting - 1
                 /\ woken' = w + 1
                 /\ lastWake' = Len(completed) + 1
                 /\ sem' = sem
            ELSE /\ waiting' = waiting
                 /\ woken' = w
                 /\ lastWake' = lastWake
                 /\ sem' = sem + 1

\* A release that wakes the first waiter even when its future is already
\* cancelled, and lets it enter the block and call connect().
ReleasedWakesCancelled(w, c, d) ==
    /\ disconnecting' = d
    /\ woken' = w
    /\ lastWake' = lastWake
    /\ sem' = IF waiting > 0 THEN sem ELSE sem + 1
    /\ connecting' = IF waiting > 0 THEN c + 1 ELSE c
    /\ waiting' = IF waiting > 0 THEN waiting - 1 ELSE waiting

\* Semaphore.release(), on the exit of `async with semaphore` or in
\* acquire() when a task that was given the slot is cancelled.  w, c and d
\* are the tasks left woken, in connect() and in disconnect() once the
\* leaving task is gone.  The slot goes to the first waiter whose future
\* is not cancelled: its future gets a result and the task is made ready,
\* but it has not run yet; with no such waiter the slot becomes free.
\* The leaving task is the next to complete, with rank Len(completed) + 1.
Released(w, c, d) ==
    /\ connecting' = c
    /\ disconnecting' = d
    /\ IF waiting > 0 /\ ~cancelReq
       THEN /\ waiting' = waiting - 1
            /\ woken' = w + 1
            /\ lastWake' = Len(completed) + 1
            /\ sem' = sem
       ELSE /\ waiting' = waiting
            /\ woken' = w
            /\ lastWake' = lastWake
            /\ sem' = sem + 1

(* The event loop runs every ready callback before it polls the network   *)
(* again, and create_task makes the first step of every task ready at     *)
(* once: all tasks have run up to their first suspension (inside          *)
(* acquire(), or inside connect(), which awaits the network before it     *)
(* can fail) before any connect() or disconnect() completes.              *)
Polling == started = nTasks

\* the task ends with `outcome`; as_completed queues it for the caller
Finish(outcome) ==
    /\ completed' = Append(completed, outcome)
    /\ doneQ' = Append(doneQ, outcome)

\* first step of the next task of the list: line 53, then lines 54-63 up
\* to the suspension inside connect() when a slot is free
TaskStart ==
    /\ pc # "call"
    /\ started < nTasks
    /\ ~cancelReq
    /\ started' = started + 1
    /\ IF CanAcquire
       THEN /\ sem' = sem - 1
            /\ connecting' = connecting + 1
            /\ waiting' = waiting
       ELSE /\ waiting' = waiting + 1
            /\ UNCHANGED <<sem, connecting>>
    /\ UNCHANGED <<pc, nTasks, woken, lastWake, disconnecting, completed, doneQ,
                   consumed, cancelReq, result, halfOpen, supVars, parseVars,
                   loadVars>>
    /\ UNCHANGED lastEnd

\* first step of the next task of the list when a slot is free and the
\* TelegramClient constructor of lines 54-61 raises: the statement is
\* inside `async with semaphore` and outside the try, so the slot is
\* given back and the exception ends the task
TaskStartRaises ==
    /\ pc # "call"
    /\ started < nTasks
    /\ ~cancelReq
    /\ CanAcquire
    /\ Raisings < MaxRaising
    /\ started' = started + 1
    /\ Finish("Raised")
    /\ lastEnd' = "constructor raised"
    /\ UNCHANGED <<pc, nTasks, waiting, woken, lastWake, connecting, disconnecting,
                   sem, consumed, cancelReq, result, halfOpen, supVars,
                   parseVars, loadVars>>

\* a task that was given the slot runs: acquire() returns, lines 54-63
\* build the client and call connect(), which suspends
WokenStart ==
    /\ woken > 0
    /\ ~cancelReq
    /\ woken' = woken - 1
    /\ connecting' = connecting + 1
    /\ UNCHANGED <<pc, nTasks, started, waiting, lastWake, disconnecting, sem,
                   completed, doneQ, consumed, cancelReq, result, halfOpen,
                   lastEnd, supVars, parseVars, loadVars>>

\* a task that was given the slot runs and the constructor raises
WokenRaises ==
    /\ woken > 0
    /\ ~cancelReq
    /\ Raisings < MaxRaising
    /\ Finish("Raised")
    /\ Released(woken - 1, connecting, disconnecting)
    /\ lastEnd' = "constructor raised"
    /\ UNCHANGED <<pc, nTasks, started, consumed, cancelReq, result,
                   halfOpen, supVars, parseVars, loadVars>>

\* line 63 raises (timeout, refusal, protocol error): lines 66-67
ConnectFail ==
    /\ Polling
    /\ connecting > 0
    /\ ~cancelReq
    /\ Finish("Failure")
    /\ Released(woken, connecting - 1, disconnecting)
    /\ UNCHANGED <<pc, nTasks, started, consumed, cancelReq, result,
                   halfOpen, supVars, parseVars, loadVars>>
    /\ lastEnd' = "connect raised"

\* line 63 returns; line 64 calls disconnect(), which suspends
ConnectOk ==
    /\ Polling
    /\ connecting > 0
    /\ ~cancelReq
    /\ Successes + disconnecting < MaxWorking
    /\ connecting' = connecting - 1
    /\ disconnecting' = disconnecting + 1
    /\ UNCHANGED <<pc, nTasks, started, waiting, woken, lastWake, sem, completed, doneQ,
                   consumed, cancelReq, result, halfOpen, supVars, parseVars, loadVars>>
    /\ UNCHANGED lastEnd

\* line 64 returns; line 65 returns the candidate
DisconnectOk ==
    /\ disconnecting > 0
    /\ ~cancelReq
    /\ Successes < MaxWorking
    /\ Finish("Success")
    /\ Released(woken, connecting, disconnecting - 1)
    /\ UNCHANGED <<pc, nTasks, started, consumed, cancelReq, result,
                   halfOpen, supVars, parseVars, loadVars>>
    /\ lastEnd' = "disconnect returned"

\* a probe that returns its candidate although disconnect() raised
DisconnectFailReportsSuccess ==
    /\ disconnecting > 0
    /\ ~cancelReq
    /\ Finish("Success")
    /\ Released(woken, connecting, disconnecting - 1)
    /\ UNCHANGED <<pc, nTasks, started, consumed, cancelReq, result,
                   halfOpen, supVars, parseVars, loadVars>>
    /\ lastEnd' = "disconnect raised"

\* line 64 raises: lines 66-67
DisconnectFail ==
    /\ disconnecting > 0
    /\ ~cancelReq
    /\ Finish("Failure")
    /\ Released(woken, connecting, disconnecting - 1)
    /\ UNCHANGED <<pc, nTasks, started, consumed, cancelReq, result,
                   halfOpen, supVars, parseVars, loadVars>>
    /\ lastEnd' = "disconnect raised"

(* CancelledError is no Exception: lines 66-67 do not catch it, and it    *)
(* leaves test_single_proxy through `async with`, which releases.         *)

\* a task cancelled inside semaphore.acquire(), line 53: it holds no slot
CancelWaiting ==
    /\ cancelReq
    /\ waiting > 0
    /\ waiting' = waiting - 1
    /\ Finish("Cancelled")
    /\ UNCHANGED <<pc, nTasks, started, woken, lastWake, connecting, disconnecting,
                   sem, consumed, cancelReq, result, halfOpen, supVars,
                   parseVars, loadVars>>
    /\ lastEnd' = "acquire cancelled"

\* a task cancelled after a release() gave it the slot and before it ran:
\* CancelledError is raised inside acquire(), whose except clause gives
\* the slot back (the future was not cancelled); line 54 is never reached
CancelWoken ==
    /\ cancelReq
    /\ woken > 0
    /\ Finish("Cancelled")
    /\ Released(woken - 1, connecting, disconnecting)
    /\ lastEnd' = "acquire cancelled"
    /\ UNCHANGED <<pc, nTasks, started, consumed, cancelReq, result,
                   halfOpen, supVars, parseVars, loadVars>>

\* a task cancelled inside connect(), line 63: line 64 is never reached
CancelConnecting ==
    /\ cancelReq
    /\ connecting > 0
    /\ halfOpen' = halfOpen + 1
    /\ Finish("Cancelled")
    /\ Released(woken, connecting - 1, disconnecting)
    /\ UNCHANGED <<pc, nTasks, started, consumed, cancelReq, result,
                   supVars, parseVars, loadVars>>
    /\ lastEnd' = "connect cancelled"

\* a task cancelled inside disconnect(), line 64
CancelDisconnecting ==
    /\ cancelReq
    /\ disconnecting > 0
    /\ Finish("Cancelled")
    /\ Released(woken, connecting, disconnecting - 1)
    /\ UNCHANGED <<pc, nTasks, started, consumed, cancelReq, result,
                   halfOpen, supVars, parseVars, loadVars>>
    /\ lastEnd' = "disconnect cancelled"

(* ---------------------- find_working_proxy_async ----------------------- *)

\* lines 75-81: the semaphore and one task per candidate; with no task the
\* for loop has nothing to await and line 90 returns None
CallAlwaysLoops ==
    /\ pc = "call"
    /\ pc' = "loop"
    /\ sem' = SemaphoreValue
    /\ result' = <<>>
    /\ UNCHANGED <<nTasks, started, waiting, woken, lastWake, connecting, disconnecting,
                   completed, doneQ, consumed, cancelReq, halfOpen,
                   supVars, parseVars, loadVars>>
    /\ UNCHANGED lastEnd

Call ==
    /\ pc = "call"
    /\ pc' = IF nTasks = 0 THEN "returned" ELSE "loop"
    /\ sem' = SemaphoreValue
    /\ result' = <<>>
    /\ UNCHANGED <<nTasks, started, waiting, woken, lastWake, connecting, disconnecting,
                   completed, doneQ, consumed, cancelReq, halfOpen,
                   supVars, parseVars, loadVars>>
    /\ UNCHANGED lastEnd

(* release() makes the task it gives the slot to ready before the leaving  *)
(* task is done and its done callback is queued, and ready callbacks run   *)
(* in order: the result of rank r reaches `await coro` only after every    *)
(* task woken by a release of rank r or less has run.  The woken tasks     *)
(* were woken by the releases of ranks lastWake - woken + 1 .. lastWake.   *)
HandedOut(r) == woken = 0 \/ lastWake - woken + 1 > r

\* a for loop that returns whatever finished first, None included
MainNextFirstCompleted ==
    /\ pc = "loop"
    /\ doneQ # <<>>
    /\ doneQ' = Tail(doneQ)
    /\ consumed' = consumed + 1
    /\ cancelReq' = TRUE
    /\ result' = <<consumed + 1>>
    /\ pc' = "returned"
    /\ UNCHANGED <<nTasks, started, waiting, woken, lastWake, connecting, disconnecting, sem,
                   completed, halfOpen, supVars, parseVars, loadVars>>
    /\ UNCHANGED lastEnd

\* a for loop with `return None` inside it
MainNextEarlyNone ==
    /\ pc = "loop"
    /\ doneQ # <<>>
    /\ doneQ' = Tail(doneQ)
    /\ consumed' = consumed + 1
    /\ IF Head(doneQ) = "Success"
       THEN /\ cancelReq' = TRUE
            /\ result' = <<consumed + 1>>
       ELSE UNCHANGED <<cancelReq, result>>
    /\ pc' = "returned"
    /\ UNCHANGED <<nTasks, started, waiting, woken, lastWake, connecting, disconnecting, sem,
                   completed, halfOpen, supVars, parseVars, loadVars>>
    /\ UNCHANGED lastEnd

\* lines 82-90, one turn of the for loop: `await coro` yields the result
\* of the task that finished first among those not handed out yet
MainNext ==
    /\ pc = "loop"
    /\ Polling
    /\ doneQ # <<>>
    /\ HandedOut(consumed + 1)
    /\ doneQ' = Tail(doneQ)
    /\ consumed' = consumed + 1
    /\ CASE Head(doneQ) = "Success" ->
              \* lines 83-88: cancel every task that is not done, return
              /\ cancelReq' = TRUE
              /\ result' = <<consumed + 1>>
              /\ pc' = "returned"
         [] Head(doneQ) = "Failure" ->
              \* falsy result: next turn, or line 90 after the last task
              /\ pc' = IF consumed + 1 = nTasks THEN "returned" ELSE "loop"
              /\ UNCHANGED <<cancelReq, result>>
         [] Head(doneQ) \in {"Cancelled", "Raised"} ->
              \* `await coro` re-raises the task's exception
              /\ pc' = "raised"
              /\ UNCHANGED <<cancelReq, result>>
    /\ UNCHANGED <<nTasks, started, waiting, woken, lastWake, connecting, disconnecting, sem,
                   completed, halfOpen, supVars, parseVars, loadVars>>
    /\ UNCHANGED lastEnd

NextProbe ==
    \/ Call
    \/ TaskStart
    \/ ConnectFail
    \/ ConnectOk
    \/ DisconnectOk
    \/ DisconnectFail
    \/ MainNext
    \/ CancelWaiting
    \/ CancelConnecting
    \/ CancelDisconnecting
    \/ TaskStartRaises
    \/ WokenStart
    \/ WokenRaises
    \/ CancelWoken

SpecProbe == InitProbe /\ [][NextProbe]_vars


(***************************************************************************)
(*                       the connection supervisor                         *)
(***************************************************************************)

(* Exceptions the client raises, by the except clause that takes them.     *)
(* "OSError" stands for OSError, ConnectionError and TimeoutError.         *)
(* AuthKeyUnregisteredError and FloodWaitError are RPCErrors with a clause *)
(* of their own ahead of `except errors.RPCError`; "Exception" is any      *)
(* other Exception.  asyncio.CancelledError is a BaseException.            *)
ErrorKinds == {"OSError", "CancelledError", "AuthKeyUnregisteredError",
               "FloodWaitError", "RPCError", "Exception"}

\* e.seconds of a FloodWaitError; 0 for every other exception
Seconds(e) == IF e = "FloodWaitError" THEN 1..MaxFloodWait ELSE {0}

\* `except Exception` takes everything but CancelledError
IsException(e) == e # "CancelledError"

\* positions of run_with_reconnect, by the phase of the state machine:
\* Connecting is the connection test of line 21 and the start sequence,
\* client.start(), of lines 24 and 30; Authorizing is the check of line 27
Connecting == {"loop", "start", "reauth"}
Authorizing == {"authcheck"}
Running == {"running"}
Invalidating == {"delete", "restart"}
BackingOff == {"restart_sleep", "flood_sleep"}

\* the positions inside the try body, lines 20-36
TryBody == Connecting \cup Authorizing \cup Running

\* lines 40-42 with the reset of line 40 left out
OnTransientKeepsBackoff ==
    /\ spc' = "loop"
    /\ UNCHANGED <<backoff_time, wait_time, slept, existsSeen, deleteCalls>>

\* lines 38-42, OSError, ConnectionError, TimeoutError, CancelledError:
\* the backoff is reset and the loop goes on without a sleep
OnTransient ==
    /\ backoff_time' = BACKOFF_START
    /\ spc' = "loop"
    /\ UNCHANGED <<wait_time, slept, existsSeen, deleteCalls>>

\* lines 44-46, AuthKeyUnregisteredError: on to the removal of line 48
OnAuthKeyUnregistered ==
    /\ spc' = "delete"
    /\ existsSeen' = FALSE
    /\ deleteCalls' = 0
    /\ UNCHANGED <<backoff_time, wait_time, slept>>

\* line 68 as asyncio.sleep(wait_time)
OnFloodWaitSleepsSeconds(w) ==
    /\ wait_time' = w
    /\ slept' = w
    /\ spc' = "flood_sleep"
    /\ UNCHANGED <<backoff_time, existsSeen, deleteCalls>>

\* lines 64-68 with the reset of the other clauses added
OnFloodWaitResetsBackoff(w) ==
    /\ wait_time' = w
    /\ backoff_time' = BACKOFF_START
    /\ slept' = Max(w, BACKOFF_START)
    /\ spc' = "flood_sleep"
    /\ UNCHANGED <<existsSeen, deleteCalls>>

\* lines 64-68, FloodWaitError: asyncio.sleep(max(wait_time, backoff_time))
\* is entered
OnFloodWait(w) ==
    /\ wait_time' = w
    /\ slept' = Max(w, backoff_time)
    /\ spc' = "flood_sleep"
    /\ UNCHANGED <<backoff_time, existsSeen, deleteCalls>>

\* lines 70-73 handled as lines 44-46 handle the revoked key
OnRPCErrorDeletesSession ==
    /\ spc' = "delete"
    /\ existsSeen' = FALSE
    /\ deleteCalls' = 0
    /\ UNCHANGED <<backoff_time, wait_time, slept>>

\* lines 70-73, any other RPCError
OnRPCError ==
    /\ backoff_time' = BACKOFF_START
    /\ spc' = "loop"
    /\ UNCHANGED <<wait_time, slept, existsSeen, deleteCalls>>

\* lines 76-79 as the failed restart is handled, lines 59-62: sleep, then
\* double
OnExceptionBacksOff ==
    /\ slept' = backoff_time
    /\ spc' = "restart_sleep"
    /\ UNCHANGED <<backoff_time, wait_time, existsSeen, deleteCalls>>

\* lines 76-79, any other Exception
OnException ==
    /\ backoff_time' = BACKOFF_START
    /\ spc' = "loop"
    /\ UNCHANGED <<wait_time, slept, existsSeen, deleteCalls>>

(* An exception e (seconds w) leaves the try body, lines 20-36: the       *)
(* except clauses of lines 38-80, up to the first await of the handler.   *)
Catch(e, w) ==
    /\ lastError' = e
    /\ raised' = [kind |-> e, seconds |-> w, at |-> spc,
                  tick |-> 1 - raised.tick]
    /\ CASE e \in {"OSError", "CancelledError"} -> OnTransient
         [] e = "AuthKeyUnregisteredError" -> OnAuthKeyUnregistered
         [] e = "FloodWaitError" -> OnFloodWait(w)
         [] e = "RPCError" -> OnRPCError
         [] e = "Exception" -> OnException
    /\ UNCHANGED <<session_file, is_authorized>>

\* an await of the try body raises
Raises ==
    \E e \in ErrorKinds : \E w \in Seconds(e) : Catch(e, w)

\* client.start() has returned: the library saves the session, which
\* brings a missing session file back when it reopens its database
Saved == session_file' \in {session_file, TRUE}

\* main.py line 43, reconnector.py line 18
Run ==
    /\ spc = "idle"
    /\ pc = "closed"
    /\ spc' = "loop"
    /\ backoff_time' = BACKOFF_START
    /\ UNCHANGED <<session_file, lastError, wait_time, slept, existsSeen,
                   deleteCalls, raised, is_authorized, probeVars, parseVars, loadVars>>

\* lines 21-22: client.is_connected()
IsConnected ==
    /\ spc = "loop"
    /\ \E is_connected \in BOOLEAN :
          spc' = IF is_connected THEN "authcheck" ELSE "start"
    /\ UNCHANGED <<backoff_time, session_file, lastError, wait_time, slept,
                   existsSeen, deleteCalls, raised, is_authorized,
                   probeVars, parseVars, loadVars>>

\* lines 24-25: client.start() returns
StartOk ==
    /\ spc = "start"
    /\ spc' = "authcheck"
    /\ Saved
    /\ UNCHANGED <<backoff_time, lastError, wait_time, slept, existsSeen,
                   deleteCalls, raised, is_authorized, probeVars, parseVars, loadVars>>

\* line 24: client.start() raises
StartErr ==
    /\ spc = "start"
    /\ Raises
    /\ UNCHANGED <<probeVars, parseVars, loadVars>>

\* the test of line 28 left out: run_until_disconnected comes next
AuthCheckReturnsRunning(answer) ==
    /\ spc = "authcheck"
    /\ is_authorized' = answer
    /\ spc' = "running"

\* lines 27-28: client.is_user_authorized() returns; when the answer is
\* False the start sequence of line 30 comes next
AuthCheckReturns(answer) ==
    /\ spc = "authcheck"
    /\ is_authorized' = answer
    /\ spc' = IF answer THEN "running" ELSE "reauth"

\* lines 27-28
AuthCheck ==
    /\ \E answer \in BOOLEAN : AuthCheckReturns(answer)
    /\ UNCHANGED <<backoff_time, session_file, lastError, wait_time, slept,
                   existsSeen, deleteCalls, raised, probeVars, parseVars, loadVars>>

\* line 27: client.is_user_authorized() raises
AuthCheckErr ==
    /\ spc = "authcheck"
    /\ Raises
    /\ UNCHANGED <<probeVars, parseVars, loadVars>>

\* lines 30-33: client.start() returns
ReauthOk ==
    /\ spc = "reauth"
    /\ spc' = "running"
    /\ Saved
    /\ UNCHANGED <<backoff_time, lastError, wait_time, slept, existsSeen,
                   deleteCalls, raised, is_authorized, probeVars, parseVars, loadVars>>

\* line 30: client.start() raises
ReauthErr ==
    /\ spc = "reauth"
    /\ Raises
    /\ UNCHANGED <<probeVars, parseVars, loadVars>>

\* line 36 followed by a reset of the backoff
DisconnectedResetsBackoff ==
    /\ spc = "running"
    /\ spc' = "loop"
    /\ backoff_time' = BACKOFF_START
    /\ UNCHANGED <<session_file, lastError, wait_time, slept, existsSeen,
                   deleteCalls, raised, is_authorized, probeVars, parseVars, loadVars>>

\* line 36: client.run_until_disconnected() returns, next turn of the loop
Disconnected ==
    /\ spc = "running"
    /\ spc' = "loop"
    /\ UNCHANGED <<backoff_time, session_file, lastError, wait_time, slept,
                   existsSeen, deleteCalls, raised, is_authorized,
                   probeVars, parseVars, loadVars>>

\* line 36: client.run_until_disconnected() raises
RunningErr ==
    /\ spc = "running"
    /\ Raises
    /\ UNCHANGED <<probeVars, parseVars, loadVars>>

\* os.remove without the os.path.exists test of line 48
DeleteSessionUnchecked ==
    /\ spc = "delete"
    /\ existsSeen' = session_file
    /\ deleteCalls' = deleteCalls + 1
    /\ \E removed \in BOOLEAN : session_file' = (session_file /\ ~removed)
    /\ backoff_time' = BACKOFF_START
    /\ spc' = "restart"
    /\ UNCHANGED <<lastError, wait_time, slept, raised, is_authorized,
                   probeVars, parseVars, loadVars>>

\* lines 47-54 with the reset of line 54 left out
DeleteSessionKeepsBackoff ==
    /\ spc = "delete"
    /\ existsSeen' = session_file
    /\ IF session_file
       THEN /\ deleteCalls' = deleteCalls + 1
            /\ \E removed \in BOOLEAN : session_file' = ~removed
       ELSE UNCHANGED <<deleteCalls, session_file>>
    /\ spc' = "restart"
    /\ UNCHANGED <<backoff_time, lastError, wait_time, slept, raised,
                   is_authorized, probeVars, parseVars, loadVars>>

\* lines 47-54 with line 54 as `backoff_time = 0`
DeleteSessionResetsToZero ==
    /\ spc = "delete"
    /\ existsSeen' = session_file
    /\ IF session_file
       THEN /\ deleteCalls' = deleteCalls + 1
            /\ \E removed \in BOOLEAN : session_file' = ~removed
       ELSE UNCHANGED <<deleteCalls, session_file>>
    /\ backoff_time' = 0
    /\ spc' = "restart"
    /\ UNCHANGED <<lastError, wait_time, slept, raised, is_authorized,
                   probeVars, parseVars, loadVars>>

\* lines 47-54: the session file is removed if it is there; an exception
\* of os.remove is logged (lines 51-52); then the backoff is reset
DeleteSession ==
    /\ spc = "delete"
    /\ existsSeen' = session_file
    /\ IF session_file
       THEN /\ deleteCalls' = deleteCalls + 1
            /\ \E removed \in BOOLEAN : session_file' = ~removed
       ELSE UNCHANGED <<deleteCalls, session_file>>
    /\ backoff_time' = BACKOFF_START
    /\ spc' = "restart"
    /\ UNCHANGED <<lastError, wait_time, slept, raised, is_authorized,
                   probeVars, parseVars, loadVars>>

\* lines 56-57: client.start() returns, next turn of the loop
RestartOk ==
    /\ spc = "restart"
    /\ spc' = "loop"
    /\ Saved
    /\ UNCHANGED <<backoff_time, lastError, wait_time, slept, existsSeen,
                   deleteCalls, raised, is_authorized, probeVars, parseVars, loadVars>>

\* lines 56-61: client.start() raises.  `except Exception` takes an
\* Exception and sleeps; a CancelledError leaves run_with_reconnect
RestartErr ==
    /\ spc = "restart"
    /\ \E e \in ErrorKinds : \E w \in Seconds(e) :
          /\ raised' = [kind |-> e, seconds |-> w, at |-> spc,
                        tick |-> 1 - raised.tick]
          /\ IF IsException(e)
             THEN /\ spc' = "restart_sleep"
                  /\ slept' = backoff_time
             ELSE /\ spc' = "raised"
                  /\ UNCHANGED slept
    /\ UNCHANGED <<backoff_time, session_file, lastError, is_authorized,
                   wait_time, existsSeen, deleteCalls, probeVars, parseVars, loadVars>>

\* a supervisor that gives up the proxy after a failed restart
RestartSleepDoneGoesDirect ==
    /\ spc = "restart_sleep"
    /\ backoff_time' = Min(backoff_time * 2, BACKOFF_MAX)
    /\ spc' = "loop"
    /\ connection' = [type |-> "ConnectionTcpFull", proxy |-> <<>>]
    /\ UNCHANGED <<session_file, lastError, wait_time, slept, existsSeen,
                   deleteCalls, raised, is_authorized, probeVars, parseVars,
                   lpc, file_exists, file_readable, lines, line_no, proxy_tuples,
                   proxy_info>>

\* lines 61-62: the sleep is over, the backoff doubles up to BACKOFF_MAX
RestartSleepDone ==
    /\ spc = "restart_sleep"
    /\ backoff_time' = Min(backoff_time * 2, BACKOFF_MAX)
    /\ spc' = "loop"
    /\ UNCHANGED <<session_file, lastError, wait_time, slept, existsSeen,
                   deleteCalls, raised, is_authorized, probeVars, parseVars, loadVars>>

\* line 68 followed by the doubling of line 62
FloodSleepDoneDoubles ==
    /\ spc = "flood_sleep"
    /\ backoff_time' = Min(backoff_time * 2, BACKOFF_MAX)
    /\ spc' = "loop"
    /\ UNCHANGED <<session_file, lastError, wait_time, slept, existsSeen,
                   deleteCalls, raised, is_authorized, probeVars, parseVars, loadVars>>

\* line 68: the sleep is over, next turn of the loop
FloodSleepDone ==
    /\ spc = "flood_sleep"
    /\ spc' = "loop"
    /\ UNCHANGED <<backoff_time, session_file, lastError, wait_time, slept,
                   existsSeen, deleteCalls, raised, is_authorized,
                   probeVars, parseVars, loadVars>>

\* line 61: the task is cancelled while it sleeps; the CancelledError of
\* asyncio.sleep is raised inside the handler of line 58, is not taken by
\* `except Exception` and leaves run_with_reconnect
RestartSleepCancelled ==
    /\ spc = "restart_sleep"
    /\ spc' = "raised"
    /\ raised' = [kind |-> "CancelledError", seconds |-> 0, at |-> spc,
                  tick |-> 1 - raised.tick]
    /\ UNCHANGED <<backoff_time, session_file, lastError, is_authorized,
                   wait_time, slept, existsSeen, deleteCalls, probeVars,
                   parseVars, loadVars>>

\* line 68: the task is cancelled while it sleeps; the CancelledError is
\* raised inside the handler of line 64, is not offered to the clause of
\* line 38 and leaves run_with_reconnect
FloodSleepCancelled ==
    /\ spc = "flood_sleep"
    /\ spc' = "raised"
    /\ raised' = [kind |-> "CancelledError", seconds |-> 0, at |-> spc,
                  tick |-> 1 - raised.tick]
    /\ UNCHANGED <<backoff_time, session_file, lastError, is_authorized,
                   wait_time, slept, existsSeen, deleteCalls, probeVars,
                   parseVars, loadVars>>

\* the client exists, its probing round is over: main() has not run yet
InitSupervisor ==
    /\ pc = "closed"
    /\ nTasks = 0
    /\ started = 0
    /\ waiting = 0
    /\ woken = 0
    /\ lastWake = 0
    /\ connecting = 0
    /\ disconnecting = 0
    /\ sem = SemaphoreValue
    /\ completed = <<>>
    /\ doneQ = <<>>
    /\ consumed = 0
    /\ cancelReq = FALSE
    /\ result = <<>>
    /\ halfOpen = 0
    /\ lastEnd = "none"
    /\ SupIdle
    /\ ParseIdle
    /\ LoadIdle

NextSupervisor ==
    \/ Run
    \/ IsConnected
    \/ StartOk
    \/ StartErr
    \/ AuthCheck
    \/ AuthCheckErr
    \/ ReauthOk
    \/ ReauthErr
    \/ Disconnected
    \/ RunningErr
    \/ DeleteSession
    \/ RestartOk
    \/ RestartErr
    \/ RestartSleepDone
    \/ RestartSleepCancelled
    \/ FloodSleepDone
    \/ FloodSleepCancelled

SpecSupervisor == InitSupervisor /\ [][NextSupervisor]_vars

\* every sleep ends and every call of the client returns or raises
SpecSupervisorFair == SpecSupervisor /\ WF_vars(NextSupervisor)


(***************************************************************************)
(*                          the proxy link parser                          *)
(***************************************************************************)

(* A text is a sequence of characters.  A printable ASCII character is     *)
(* written as itself, the grave accent excepted; any other character is    *)
(* written U+ and its code point in hexadecimal: "U+0009" is the tab,      *)
(* "U+0060" the grave accent, "U+00E9" the letter e with an acute accent,  *)
(* "U+06F4" the Extended Arabic-Indic digit four.                          *)

\* the characters str.encode('ascii') accepts
AsciiChars ==
    {"U+0000", "U+0001", "U+0002", "U+0003", "U+0004", "U+0005", "U+0006",
     "U+0007", "U+0008", "U+0009", "U+000A", "U+000B", "U+000C", "U+000D",
     "U+000E", "U+000F", "U+0010", "U+0011", "U+0012", "U+0013", "U+0014",
     "U+0015", "U+0016", "U+0017", "U+0018", "U+0019", "U+001A", "U+001B",
     "U+001C", "U+001D", "U+001E", "U+001F", " ", "!", "\"", "#", "$", "%",
     "&", "'", "(", ")", "*", "+", ",", "-", ".", "/", "0", "1", "2", "3",
     "4", "5", "6", "7", "8", "9", ":", ";", "<", "=", ">", "?", "@", "A",
     "B", "C", "D", "E", "F", "G", "H", "I", "J", "K", "L", "M", "N", "O",
     "P", "Q", "R", "S", "T", "U", "V", "W", "X", "Y", "Z", "[", "\\", "]",
     "^", "_", "U+0060", "a", "b", "c", "d", "e", "f", "g", "h", "i", "j", "k",
     "l", "m", "n", "o", "p", "q", "r", "s", "t", "u", "v", "w", "x", "y",
     "z", "{", "|", "}", "~", "U+007F"}

IsAscii(c) == c \in AsciiChars

\* the digits bytes.hex() writes, and the same with the capital letters
LowerHex == <<"0", "1", "2", "3", "4", "5", "6", "7", "8", "9",
              "a", "b", "c", "d", "e", "f">>
UpperHex == <<"0", "1", "2", "3", "4", "5", "6", "7", "8", "9",
              "A", "B", "C", "D", "E", "F">>

\* c in '0123456789abcdefABCDEF', client.py line 35
IsHexChar(c) == \E i \in 1..16 : LowerHex[i] = c \/ UpperHex[i] = c

\* the value of a hexadecimal digit
HexValue(c) == (CHOOSE i \in 1..16 : LowerHex[i] = c \/ UpperHex[i] = c) - 1

\* the base64 alphabet, after urlsafe_b64decode has turned - and _ into
\* + and /
Base64Alphabet ==
    <<"A", "B", "C", "D", "E", "F", "G", "H", "I", "J", "K", "L", "M",
      "N", "O", "P", "Q", "R", "S", "T", "U", "V", "W", "X", "Y", "Z",
      "a", "b", "c", "d", "e", "f", "g", "h", "i", "j", "k", "l", "m",
      "n", "o", "p", "q", "r", "s", "t", "u", "v", "w", "x", "y", "z",
      "0", "1", "2", "3", "4", "5", "6", "7", "8", "9", "+", "/">>

UrlsafeTranslate(c) == IF c = "-" THEN "+" ELSE IF c = "_" THEN "/" ELSE c

\* the six bits a character stands for; 64 for a character that is not of
\* the alphabet
Base64Value(c) ==
    LET t == UrlsafeTranslate(c)
    IN  IF \E i \in 1..64 : Base64Alphabet[i] = t
        THEN (CHOOSE i \in 1..64 : Base64Alphabet[i] = t) - 1
        ELSE 64

\* the outcome of a decoding: the bytes, or an exception
Bytes(b) == [ok |-> TRUE, bytes |-> b]
DecodeError == [ok |-> FALSE, bytes |-> <<>>]

(* binascii.a2b_base64 without validation: a character outside the         *)
(* alphabet is skipped; = is skipped unless it completes the padding of a  *)
(* quad that holds two or three characters, and then the decoding ends     *)
(* there; data ending in the middle of a quad is an error.                 *)
RECURSIVE A2bBase64(_, _, _, _, _)
A2bBase64(s, quad_pos, leftchar, pads, out) ==
    IF s = <<>>
    THEN IF quad_pos # 0 THEN DecodeError ELSE Bytes(out)
    ELSE LET c == Head(s)
             v == Base64Value(c)
         IN  IF c = "="
             THEN IF quad_pos >= 2 /\ quad_pos + pads + 1 >= 4
                  THEN Bytes(out)
                  ELSE A2bBase64(Tail(s), quad_pos, leftchar,
                                 IF quad_pos >= 2 THEN pads + 1 ELSE pads,
                                 out)
             ELSE IF v >= 64
             THEN A2bBase64(Tail(s), quad_pos, leftchar, pads, out)
             ELSE CASE quad_pos = 0 ->
                         A2bBase64(Tail(s), 1, v, 0, out)
                    [] quad_pos = 1 ->
                         A2bBase64(Tail(s), 2, v % 16, 0,
                                   Append(out, leftchar * 4 + (v \div 16)))
                    [] quad_pos = 2 ->
                         A2bBase64(Tail(s), 3, v % 4, 0,
                                   Append(out, leftchar * 16 + (v \div 4)))
                    [] quad_pos = 3 ->
                         A2bBase64(Tail(s), 0, 0, 0,
                                   Append(out, leftchar * 64 + v))

\* base64.urlsafe_b64decode(s) for a str: s.encode('ascii') raises a
\* ValueError for a character outside ASCII; then a2b_base64
UrlsafeB64decode(s) ==
    IF \E i \in 1..Len(s) : ~IsAscii(s[i])
    THEN DecodeError
    ELSE A2bBase64(s, 0, 0, 0, <<>>)

\* secret_encoded.replace('%3D', '='), line 39
RECURSIVE ReplacePercent3D(_)
ReplacePercent3D(s) ==
    IF s = <<>> THEN <<>>
    ELSE IF Len(s) >= 3 /\ s[1] = "%" /\ s[2] = "3" /\ s[3] = "D"
    THEN <<"=">> \o ReplacePercent3D(SubSeq(s, 4, Len(s)))
    ELSE <<Head(s)>> \o ReplacePercent3D(Tail(s))

\* the blanks bytes.fromhex skips between two pairs of digits: tab, line
\* feed, vertical tab, form feed, carriage return and space
AsciiBlanks == {"U+0009", "U+000A", "U+000B", "U+000C", "U+000D", " "}

\* bytes.fromhex(s), line 36: pairs of hexadecimal digits with blanks
\* around them; a ValueError for a digit left without its pair and for
\* any other character
RECURSIVE FromHex(_)
FromHex(s) ==
    IF s = <<>> THEN Bytes(<<>>)
    ELSE IF Head(s) \in AsciiBlanks THEN FromHex(Tail(s))
    ELSE IF Len(s) >= 2 /\ IsHexChar(s[1]) /\ IsHexChar(s[2])
    THEN LET rest == FromHex(SubSeq(s, 3, Len(s)))
         IN  IF rest.ok
             THEN Bytes(<<HexValue(s[1]) * 16 + HexValue(s[2])>>
                        \o rest.bytes)
             ELSE DecodeError
    ELSE DecodeError

\* secret_bytes.hex(), line 44
RECURSIVE BytesHex(_)
BytesHex(b) ==
    IF b = <<>> THEN <<>>
    ELSE <<LowerHex[(Head(b) \div 16) + 1], LowerHex[(Head(b) % 16) + 1]>>
         \o BytesHex(Tail(b))

\* the test of line 35: the text starts with dd or ee and is made of
\* hexadecimal digits
LooksHex(s) ==
    /\ Len(s) >= 2
    /\ <<s[1], s[2]>> \in {<<"d", "d">>, <<"e", "e">>}
    /\ \A i \in 1..Len(s) : IsHexChar(s[i])

\* the decimal digits of Unicode (category Nd), the ten of each script in
\* the order of their values: int() reads every one of them
DecimalDigits ==
    <<"0", "1", "2", "3", "4", "5", "6", "7", "8", "9", "U+0660", "U+0661",
      "U+0662", "U+0663", "U+0664", "U+0665", "U+0666", "U+0667", "U+0668",
      "U+0669", "U+06F0", "U+06F1", "U+06F2", "U+06F3", "U+06F4", "U+06F5",
      "U+06F6", "U+06F7", "U+06F8", "U+06F9", "U+07C0", "U+07C1", "U+07C2",
      "U+07C3", "U+07C4", "U+07C5", "U+07C6", "U+07C7", "U+07C8", "U+07C9",
      "U+0966", "U+0967", "U+0968", "U+0969", "U+096A", "U+096B", "U+096C",
      "U+096D", "U+096E", "U+096F", "U+09E6", "U+09E7", "U+09E8", "U+09E9",
      "U+09EA", "U+09EB", "U+09EC", "U+09ED", "U+09EE", "U+09EF", "U+0A66",
      "U+0A67", "U+0A68", "U+0A69", "U+0A6A", "U+0A6B", "U+0A6C", "U+0A6D",
      "U+0A6E", "U+0A6F", "U+0AE6", "U+0AE7", "U+0AE8", "U+0AE9", "U+0AEA",
      "U+0AEB", "U+0AEC", "U+0AED", "U+0AEE", "U+0AEF", "U+0B66", "U+0B67",
      "U+0B68", "U+0B69", "U+0B6A", "U+0B6B", "U+0B6C", "U+0B6D", "U+0B6E",
      "U+0B6F", "U+0BE6", "U+0BE7", "U+0BE8", "U+0BE9", "U+0BEA", "U+0BEB",
      "U+0BEC", "U+0BED", "U+0BEE", "U+0BEF", "U+0C66", "U+0C67", "U+0C68",
      "U+0C69", "U+0C6A", "U+0C6B", "U+0C6C", "U+0C6D", "U+0C6E", "U+0C6F",
      "U+0CE6", "U+0CE7", "U+0CE8", "U+0CE9", "U+0CEA", "U+0CEB", "U+0CEC",
      "U+0CED", "U+0CEE", "U+0CEF", "U+0D66", "U+0D67", "U+0D68", "U+0D69",
      "U+0D6A", "U+0D6B", "U+0D6C", "U+0D6D", "U+0D6E", "U+0D6F", "U+0DE6",
      "U+0DE7", "U+0DE8", "U+0DE9", "U+0DEA", "U+0DEB", "U+0DEC", "U+0DED",
      "U+0DEE", "U+0DEF", "U+0E50", "U+0E51", "U+0E52", "U+0E53", "U+0E54",
      "U+0E55", "U+0E56", "U+0E57", "U+0E58", "U+0E59", "U+0ED0", "U+0ED1",
      "U+0ED2", "U+0ED3", "U+0ED4", "U+0ED5", "U+0ED6", "U+0ED7", "U+0ED8",
      "U+0ED9", "U+0F20", "U+0F21", "U+0F22", "U+0F23", "U+0F24", "U+0F25",
      "U+0F26", "U+0F27", "U+0F28", "U+0F29", "U+1040", "U+1041", "U+1042",
      "U+1043", "U+1044", "U+1045", "U+1046", "U+1047", "U+1048", "U+1049",
      "U+1090", "U+1091", "U+1092", "U+1093", "U+1094", "U+1095", "U+1096",
      "U+1097", "U+1098", "U+1099", "U+17E0", "U+17E1", "U+17E2", "U+17E3",
      "U+17E4", "U+17E5", "U+17E6", "U+17E7", "U+17E8", "U+17E9", "U+1810",
      "U+1811", "U+1812", "U+1813", "U+1814", "U+1815", "U+1816", "U+1817",
      "U+1818", "U+1819", "U+1946", "U+1947", "U+1948", "U+1949", "U+194A",
      "U+194B", "U+194C", "U+194D", "U+194E", "U+194F", "U+19D0", "U+19D1",
      "U+19D2", "U+19D3", "U+19D4", "U+19D5", "U+19D6", "U+19D7", "U+19D8",
      "U+19D9", "U+1A80", "U+1A81", "U+1A82", "U+1A83", "U+1A84", "U+1A85",
      "U+1A86", "U+1A87", "U+1A88", "U+1A89", "U+1A90", "U+1A91", "U+1A92",
      "U+1A93", "U+1A94", "U+1A95", "U+1A96", "U+1A97", "U+1A98", "U+1A99",
      "U+1B50", "U+1B51", "U+1B52", "U+1B53", "U+1B54", "U+1B55", "U+1B56",
      "U+1B57", "U+1B58", "U+1B59", "U+1BB0", "U+1BB1", "U+1BB2", "U+1BB3",
      "U+1BB4", "U+1BB5", "U+1BB6", "U+1BB7", "U+1BB8", "U+1BB9", "U+1C40",
      "U+1C41", "U+1C42", "U+1C43", "U+1C44", "U+1C45", "U+1C46", "U+1C47",
      "U+1C48", "U+1C49", "U+1C50", "U+1C51", "U+1C52", "U+1C53", "U+1C54",
      "U+1C55", "U+1C56", "U+1C57", "U+1C58", "U+1C59", "U+A620", "U+A621",
      "U+A622", "U+A623", "U+A624", "U+A625", "U+A626", "U+A627", "U+A628",
      "U+A629", "U+A8D0", "U+A8D1", "U+A8D2", "U+A8D3", "U+A8D4", "U+A8D5",
      "U+A8D6", "U+A8D7", "U+A8D8", "U+A8D9", "U+A900", "U+A901", "U+A902",
      "U+A903", "U+A904", "U+A905", "U+A906", "U+A907", "U+A908", "U+A909",
      "U+A9D0", "U+A9D1", "U+A9D2", "U+A9D3", "U+A9D4", "U+A9D5", "U+A9D6",
      "U+A9D7", "U+A9D8", "U+A9D9", "U+A9F0", "U+A9F1", "U+A9F2", "U+A9F3",
      "U+A9F4", "U+A9F5", "U+A9F6", "U+A9F7", "U+A9F8", "U+A9F9", "U+AA50",
      "U+AA51", "U+AA52", "U+AA53", "U+AA54", "U+AA55", "U+AA56", "U+AA57",
      "U+AA58", "U+AA59", "U+ABF0", "U+ABF1", "U+ABF2", "U+ABF3", "U+ABF4",
      "U+ABF5", "U+ABF6", "U+ABF7", "U+ABF8", "U+ABF9", "U+FF10", "U+FF11",
      "U+FF12", "U+FF13", "U+FF14", "U+FF15", "U+FF16", "U+FF17", "U+FF18",
      "U+FF19", "U+104A0", "U+104A1", "U+104A2", "U+104A3", "U+104A4",
      "U+104A5", "U+104A6", "U+104A7", "U+104A8", "U+104A9", "U+10D30",
      "U+10D31", "U+10D32", "U+10D33", "U+10D34", "U+10D35", "U+10D36",
      "U+10D37", "U+10D38", "U+10D39", "U+11066", "U+11067", "U+11068",
      "U+11069", "U+1106A", "U+1106B", "U+1106C", "U+1106D", "U+1106E",
      "U+1106F", "U+110F0", "U+110F1", "U+110F2", "U+110F3", "U+110F4",
      "U+110F5", "U+110F6", "U+110F7", "U+110F8", "U+110F9", "U+11136",
      "U+11137", "U+11138", "U+11139", "U+1113A", "U+1113B", "U+1113C",
      "U+1113D", "U+1113E", "U+1113F", "U+111D0", "U+111D1", "U+111D2",
      "U+111D3", "U+111D4", "U+111D5", "U+111D6", "U+111D7", "U+111D8",
      "U+111D9", "U+112F0", "U+112F1", "U+112F2", "U+112F3", "U+112F4",
      "U+112F5", "U+112F6", "U+112F7", "U+112F8", "U+112F9", "U+11450",
      "U+11451", "U+11452", "U+11453", "U+11454", "U+11455", "U+11456",
      "U+11457", "U+11458", "U+11459", "U+114D0", "U+114D1", "U+114D2",
      "U+114D3", "U+114D4", "U+114D5", "U+114D6", "U+114D7", "U+114D8",
      "U+114D9", "U+11650", "U+11651", "U+11652", "U+11653", "U+11654",
      "U+11655", "U+11656", "U+11657", "U+11658", "U+11659", "U+116C0",
      "U+116C1", "U+116C2", "U+116C3", "U+116C4", "U+116C5", "U+116C6",
      "U+116C7", "U+116C8", "U+116C9", "U+11730", "U+11731", "U+11732",
      "U+11733", "U+11734", "U+11735", "U+11736", "U+11737", "U+11738",
      "U+11739", "U+118E0", "U+118E1", "U+118E2", "U+118E3", "U+118E4",
      "U+118E5", "U+118E6", "U+118E7", "U+118E8", "U+118E9", "U+11950",
      "U+11951", "U+11952", "U+11953", "U+11954", "U+11955", "U+11956",
      "U+11957", "U+11958", "U+11959", "U+11C50", "U+11C51", "U+11C52",
      "U+11C53", "U+11C54", "U+11C55", "U+11C56", "U+11C57", "U+11C58",
      "U+11C59", "U+11D50", "U+11D51", "U+11D52", "U+11D53", "U+11D54",
      "U+11D55", "U+11D56", "U+11D57", "U+11D58", "U+11D59", "U+11DA0",
      "U+11DA1", "U+11DA2", "U+11DA3", "U+11DA4", "U+11DA5", "U+11DA6",
      "U+11DA7", "U+11DA8", "U+11DA9", "U+16A60", "U+16A61", "U+16A62",
      "U+16A63", "U+16A64", "U+16A65", "U+16A66", "U+16A67", "U+16A68",
      "U+16A69", "U+16AC0", "U+16AC1", "U+16AC2", "U+16AC3", "U+16AC4",
      "U+16AC5", "U+16AC6", "U+16AC7", "U+16AC8", "U+16AC9", "U+16B50",
      "U+16B51", "U+16B52", "U+16B53", "U+16B54", "U+16B55", "U+16B56",
      "U+16B57", "U+16B58", "U+16B59", "U+1D7CE", "U+1D7CF", "U+1D7D0",
      "U+1D7D1", "U+1D7D2", "U+1D7D3", "U+1D7D4", "U+1D7D5", "U+1D7D6",
      "U+1D7D7", "U+1D7D8", "U+1D7D9", "U+1D7DA", "U+1D7DB", "U+1D7DC",
      "U+1D7DD", "U+1D7DE", "U+1D7DF", "U+1D7E0", "U+1D7E1", "U+1D7E2",
      "U+1D7E3", "U+1D7E4", "U+1D7E5", "U+1D7E6", "U+1D7E7", "U+1D7E8",
      "U+1D7E9", "U+1D7EA", "U+1D7EB", "U+1D7EC", "U+1D7ED", "U+1D7EE",
      "U+1D7EF", "U+1D7F0", "U+1D7F1", "U+1D7F2", "U+1D7F3", "U+1D7F4",
      "U+1D7F5", "U+1D7F6", "U+1D7F7", "U+1D7F8", "U+1D7F9", "U+1D7FA",
      "U+1D7FB", "U+1D7FC", "U+1D7FD", "U+1D7FE", "U+1D7FF", "U+1E140",
      "U+1E141", "U+1E142", "U+1E143", "U+1E144", "U+1E145", "U+1E146",
      "U+1E147", "U+1E148", "U+1E149", "U+1E2F0", "U+1E2F1", "U+1E2F2",
      "U+1E2F3", "U+1E2F4", "U+1E2F5", "U+1E2F6", "U+1E2F7", "U+1E2F8",
      "U+1E2F9", "U+1E950", "U+1E951", "U+1E952", "U+1E953", "U+1E954",
      "U+1E955", "U+1E956", "U+1E957", "U+1E958", "U+1E959", "U+1FBF0",
      "U+1FBF1", "U+1FBF2", "U+1FBF3", "U+1FBF4", "U+1FBF5", "U+1FBF6",
      "U+1FBF7", "U+1FBF8", "U+1FBF9">>

IsDigit(c) == \E i \in 1..Len(DecimalDigits) : DecimalDigits[i] = c

\* the value of a decimal digit
DigitValue(c) ==
    ((CHOOSE i \in 1..Len(DecimalDigits) : DecimalDigits[i] = c) - 1) % 10

\* the blanks int() skips at both ends of its argument: those of ASCII
\* that bytes.fromhex skips, and the white space of Unicode past U+007F
\* (U+001C to U+001F, which str.strip() drops, are not among them)
IntBlanks ==
    {"U+0009", "U+000A", "U+000B", "U+000C", "U+000D", " ", "U+0085",
     "U+00A0", "U+1680", "U+2000", "U+2001", "U+2002", "U+2003", "U+2004",
     "U+2005", "U+2006", "U+2007", "U+2008", "U+2009", "U+200A", "U+2028",
     "U+2029", "U+202F", "U+205F", "U+3000"}

\* the text without the blanks at its ends
RECURSIVE Strip(_)
Strip(s) ==
    IF s = <<>> THEN <<>>
    ELSE IF Head(s) \in IntBlanks THEN Strip(Tail(s))
    ELSE IF s[Len(s)] \in IntBlanks THEN Strip(SubSeq(s, 1, Len(s) - 1))
    ELSE s

\* the value of a text of digits, in which single underscores may stand
\* between two digits
RECURSIVE DigitsValue(_, _)
DigitsValue(s, acc) ==
    IF s = <<>> THEN acc
    ELSE IF Head(s) = "_" THEN DigitsValue(Tail(s), acc)
    ELSE DigitsValue(Tail(s), acc * 10 + DigitValue(Head(s)))

IsNumeral(s) ==
    /\ s # <<>>
    /\ IsDigit(s[1])
    /\ IsDigit(s[Len(s)])
    /\ \A i \in 1..Len(s) : IsDigit(s[i]) \/ s[i] = "_"
    /\ \A i \in 1..(Len(s) - 1) : ~(s[i] = "_" /\ s[i + 1] = "_")

\* sys.int_info.default_max_str_digits: int() raises a ValueError for a
\* text of more digits, zeros at the front counted and underscores not
IntMaxStrDigits == 4300

\* int(port_str), lines 29-32: <<n>>, or <<>> for a ValueError.  The
\* zeros in front of the first digit that is not a zero add nothing to
\* the value.
IntOf(port_str) ==
    LET t == Strip(port_str)
        signed == t # <<>> /\ Head(t) \in {"+", "-"}
        digits == IF signed THEN Tail(t) ELSE t
        DigitCount(s) == Cardinality({i \in 1..Len(s) : s[i] # "_"})
        Significant(s) ==
            LET nonzero ==
                    {i \in 1..Len(s) : s[i] # "_" /\ DigitValue(s[i]) # 0}
            IN  IF nonzero = {} THEN <<>>
                ELSE SubSeq(s,
                            CHOOSE i \in nonzero : \A j \in nonzero : i <= j,
                            Len(s))
        n == DigitsValue(Significant(digits), 0)
    IN  IF ~IsNumeral(digits) THEN <<>>
        ELSE IF DigitCount(digits) > IntMaxStrDigits THEN <<>>
        ELSE IF signed /\ Head(t) = "-" THEN <<0 - n>>
        ELSE <<n>>

(* ------------------------------ urlparse ------------------------------- *)

\* urllib.parse._WHATWG_C0_CONTROL_OR_SPACE: urlsplit strips these from
\* the left of the url
C0ControlOrSpace ==
    {"U+0000", "U+0001", "U+0002", "U+0003", "U+0004", "U+0005", "U+0006",
     "U+0007", "U+0008", "U+0009", "U+000A", "U+000B", "U+000C", "U+000D",
     "U+000E", "U+000F", "U+0010", "U+0011", "U+0012", "U+0013", "U+0014",
     "U+0015", "U+0016", "U+0017", "U+0018", "U+0019", "U+001A", "U+001B",
     "U+001C", "U+001D", "U+001E", "U+001F", " "}

\* urllib.parse._UNSAFE_URL_BYTES_TO_REMOVE: urlsplit removes these from
\* the whole url
UnsafeUrlBytesToRemove == {"U+0009", "U+000D", "U+000A"}

AsciiUpper ==
    <<"A", "B", "C", "D", "E", "F", "G", "H", "I", "J", "K", "L", "M",
      "N", "O", "P", "Q", "R", "S", "T", "U", "V", "W", "X", "Y", "Z">>
AsciiLower ==
    <<"a", "b", "c", "d", "e", "f", "g", "h", "i", "j", "k", "l", "m",
      "n", "o", "p", "q", "r", "s", "t", "u", "v", "w", "x", "y", "z">>

\* url[0].isascii() and url[0].isalpha()
IsAsciiLetter(c) == \E i \in 1..26 : AsciiUpper[i] = c \/ AsciiLower[i] = c

\* urllib.parse.scheme_chars
SchemeChars ==
    {"a", "b", "c", "d", "e", "f", "g", "h", "i", "j", "k", "l", "m", "n",
     "o", "p", "q", "r", "s", "t", "u", "v", "w", "x", "y", "z", "A", "B",
     "C", "D", "E", "F", "G", "H", "I", "J", "K", "L", "M", "N", "O", "P",
     "Q", "R", "S", "T", "U", "V", "W", "X", "Y", "Z", "0", "1", "2", "3",
     "4", "5", "6", "7", "8", "9", "+", "-", "."}

\* str.lower() of a text of scheme characters
Lower(s) ==
    [k \in 1..Len(s) |->
        IF \E i \in 1..26 : AsciiUpper[i] = s[k]
        THEN AsciiLower[CHOOSE i \in 1..26 : AsciiUpper[i] = s[k]]
        ELSE s[k]]

\* urllib.parse.uses_params
UsesParams ==
    {<<>>,
     <<"f", "t", "p">>,
     <<"h", "d", "l">>,
     <<"p", "r", "o", "s", "p", "e", "r", "o">>,
     <<"h", "t", "t", "p">>,
     <<"i", "m", "a", "p">>,
     <<"h", "t", "t", "p", "s">>,
     <<"s", "h", "t", "t", "p">>,
     <<"r", "t", "s", "p">>,
     <<"r", "t", "s", "p", "s">>,
     <<"r", "t", "s", "p", "u">>,
     <<"s", "i", "p">>,
     <<"s", "i", "p", "s">>,
     <<"m", "m", "s">>,
     <<"s", "f", "t", "p">>,
     <<"t", "e", "l">>}

\* the characters of a netloc that _checknetloc refuses: their NFKC form
\* holds one of / ? # @ :
NetlocInvalid ==
    {"U+2047", "U+2048", "U+2049", "U+2100", "U+2101", "U+2105", "U+2106",
     "U+2A74", "U+FE13", "U+FE16", "U+FE55", "U+FE56", "U+FE5F", "U+FE6B",
     "U+FF03", "U+FF0F", "U+FF1A", "U+FF1F", "U+FF20"}

\* url.lstrip(_WHATWG_C0_CONTROL_OR_SPACE)
RECURSIVE LStrip(_)
LStrip(s) ==
    IF s = <<>> THEN <<>>
    ELSE IF Head(s) \in C0ControlOrSpace THEN LStrip(Tail(s))
    ELSE s

\* s.find(c) and s.rfind(c), counted from 1; 0 when c is not in s
Find(s, c) ==
    IF \E i \in 1..Len(s) : s[i] = c
    THEN CHOOSE i \in 1..Len(s) : s[i] = c /\ \A j \in 1..(i - 1) : s[j] # c
    ELSE 0
RFind(s, c) ==
    IF \E i \in 1..Len(s) : s[i] = c
    THEN CHOOSE i \in 1..Len(s) :
             s[i] = c /\ \A j \in (i + 1)..Len(s) : s[j] # c
    ELSE 0

\* s.find(';', s.rfind('/')) when / is in s, else s.find(';'), counted
\* from 1: where _splitparams cuts the path
ParamsAt(s) ==
    LET from == RFind(s, "/")
    IN  IF \E i \in (from + 1)..Len(s) : s[i] = ";"
        THEN CHOOSE i \in (from + 1)..Len(s) :
                 s[i] = ";" /\ \A j \in (from + 1)..(i - 1) : s[j] # ";"
        ELSE 0

\* s.split(c): the parts of s between the occurrences of c
RECURSIVE Split(_, _)
Split(s, c) ==
    LET i == Find(s, c)
    IN  IF i = 0 THEN <<s>>
        ELSE <<SubSeq(s, 1, i - 1)>> \o Split(SubSeq(s, i + 1, Len(s)), c)

\* IPv4Address(address) raises no AddressValueError: no / in the text,
\* and four octets between dots; an octet (_parse_octet) is one to three
\* ASCII digits, no zero in front of another digit, at most 255
IsIPv4Address(address) ==
    LET IsOctet(octet_str) ==
            /\ octet_str # <<>>
            /\ \A i \in 1..Len(octet_str) :
                   octet_str[i] \in {"0", "1", "2", "3", "4",
                                     "5", "6", "7", "8", "9"}
            /\ Len(octet_str) <= 3
            /\ (octet_str = <<"0">> \/ octet_str[1] # "0")
            /\ DigitsValue(octet_str, 0) <= 255
    IN  /\ Find(address, "/") = 0
        /\ address # <<>>
        /\ \E octets \in {Split(address, ".")} :
               /\ Len(octets) = 4
               /\ \A k \in 1..4 : IsOctet(octets[k])

\* the parts of an address between its colons; a last part with a dot,
\* an IPv4 address, gives way to the two hextets of its value, written
\* with '%x'
Hextets(split) ==
    LET RECURSIVE HexOf(_)
        HexOf(n) ==
            IF n < 16 THEN <<LowerHex[n + 1]>>
            ELSE HexOf(n \div 16) \o <<LowerHex[(n % 16) + 1]>>
        last == split[Len(split)]
        IPv4Value(address) ==
            [k \in 1..4 |-> DigitsValue(Split(address, ".")[k], 0)]
    IN  IF Find(last, ".") = 0 THEN split
        ELSE SubSeq(split, 1, Len(split) - 1)
             \o <<HexOf(256 * IPv4Value(last)[1] + IPv4Value(last)[2]),
                  HexOf(256 * IPv4Value(last)[3] + IPv4Value(last)[4])>>

\* at most nine parts; at most one empty part between the first and the
\* last, the `::`; an empty first or last part only next to it; with
\* `::` at most seven hextets and without it eight; every other part a
\* hextet (_parse_hextet): one to four hexadecimal digits
IsHextets(parts) ==
    LET n == Len(parts)
        skips == {i \in 2..(n - 1) : parts[i] = <<>>}
        skip_index == CHOOSE i \in skips : TRUE
        parts_hi ==
            IF skips = {} THEN n
            ELSE IF parts[1] = <<>> THEN skip_index - 2
            ELSE skip_index - 1
        parts_lo ==
            IF skips = {} THEN 0
            ELSE IF parts[n] = <<>> THEN n - skip_index - 1
            ELSE n - skip_index
        IsHextet(hextet_str) ==
            /\ \A i \in 1..Len(hextet_str) : IsHexChar(hextet_str[i])
            /\ Len(hextet_str) <= 4
            /\ hextet_str # <<>>
    IN  /\ n <= 9
        /\ Cardinality(skips) <= 1
        /\ IF skips # {}
           THEN /\ parts[1] = <<>> => parts_hi = 0
                /\ parts[n] = <<>> => parts_lo = 0
                /\ 8 - (parts_hi + parts_lo) >= 1
           ELSE /\ n = 8
                /\ parts[1] # <<>>
                /\ parts[n] # <<>>
        /\ \A i \in 1..parts_hi : IsHextet(parts[i])
        /\ \A i \in (n - parts_lo + 1)..n : IsHextet(parts[i])

\* IPv6Address(address) raises no AddressValueError: no / in the text; a
\* scope id after the first %, not empty and without another %; and in
\* front of it an address (_ip_int_from_string): at least three parts
\* between colons, a last part with a dot an IPv4 address, and the parts
\* as IsHextets asks
IsIPv6Address(address) ==
    LET pct == Find(address, "%")
        addr_str == IF pct = 0 THEN address ELSE SubSeq(address, 1, pct - 1)
        scope_id == SubSeq(address, pct + 1, Len(address))
    IN  /\ Find(address, "/") = 0
        /\ pct # 0 => (scope_id # <<>> /\ Find(scope_id, "%") = 0)
        /\ addr_str # <<>>
        /\ \E split \in {Split(addr_str, ":")} :
               /\ Len(split) >= 3
               /\ Find(split[Len(split)], ".") # 0 =>
                      IsIPv4Address(split[Len(split)])
               /\ IsHextets(Hextets(split))

\* urllib.parse._check_bracketed_host(hostname) raises no ValueError.  A
\* text that starts with v is an IPvFuture address,
\* re.match(r"\Av[a-fA-F0-9]+\..+\Z", hostname): v, hexadecimal digits, a
\* dot, and at least one more character, none of them a line feed.  Any
\* other text is one ipaddress.ip_address takes, and not as an IPv4
\* address.
IsBracketedHost(hostname) ==
    LET dot == Find(hostname, ".")
    IN  IF hostname # <<>> /\ hostname[1] = "v"
        THEN /\ dot > 2
             /\ \A i \in 2..(dot - 1) : IsHexChar(hostname[i])
             /\ dot < Len(hostname)
             /\ \A i \in (dot + 1)..Len(hostname) : hostname[i] # "U+000A"
        ELSE ~IsIPv4Address(hostname) /\ IsIPv6Address(hostname)

\* netloc.partition('[')[2].partition(']')[0]
BracketedHost(netloc) ==
    LET after == SubSeq(netloc, Find(netloc, "[") + 1, Len(netloc))
        close == Find(after, "]")
    IN  IF close = 0 THEN after ELSE SubSeq(after, 1, close - 1)

\* what urlparse gives, or the ValueError it raises
Parsed(scheme, netloc, path) ==
    [ok |-> TRUE, scheme |-> scheme, netloc |-> netloc, path |-> path]
UrlError == [ok |-> FALSE, scheme |-> <<>>, netloc |-> <<>>, path |-> <<>>]

(* urlparse(proxy_url), line 17, for the text of the link up to its query  *)
(* (a text without ? and #): scheme, netloc and path.  The url is stripped *)
(* on the left, tab, carriage return and line feed are removed; the text   *)
(* up to the first colon is the scheme, in small letters, when it starts   *)
(* with an ASCII letter and is made of scheme characters; a netloc follows *)
(* // and ends at the next /; for a scheme of uses_params the path ends at *)
(* the first ; of its last segment.  A netloc with one square bracket and  *)
(* not the other, with both and between them a text that is no IPv6 or    *)
(* IPvFuture address, or with a character of NetlocInvalid, is a          *)
(* ValueError.                                                             *)
Urlparse(text) ==
    LET url == SelectSeq(LStrip(text),
                         LAMBDA c : c \notin UnsafeUrlBytesToRemove)
        i == Find(url, ":")
        hasScheme ==
            /\ i > 1
            /\ IsAsciiLetter(url[1])
            /\ \A k \in 1..(i - 1) : url[k] \in SchemeChars
        scheme == IF hasScheme THEN Lower(SubSeq(url, 1, i - 1)) ELSE <<>>
        rest == IF hasScheme THEN SubSeq(url, i + 1, Len(url)) ELSE url
        hasNetloc == Len(rest) >= 2 /\ rest[1] = "/" /\ rest[2] = "/"
        after == IF hasNetloc THEN SubSeq(rest, 3, Len(rest)) ELSE rest
        delim == Find(after, "/")
        netloc ==
            IF ~hasNetloc THEN <<>>
            ELSE IF delim = 0 THEN after
            ELSE SubSeq(after, 1, delim - 1)
        path ==
            IF ~hasNetloc THEN rest
            ELSE IF delim = 0 THEN <<>>
            ELSE SubSeq(after, delim, Len(after))
        open == \E k \in 1..Len(netloc) : netloc[k] = "["
        close == \E k \in 1..Len(netloc) : netloc[k] = "]"
        cut == ParamsAt(path)
    IN  IF open # close
        THEN UrlError
        ELSE IF open /\ close /\ ~IsBracketedHost(BracketedHost(netloc))
        THEN UrlError
        ELSE IF \E k \in 1..Len(netloc) : netloc[k] \in NetlocInvalid
        THEN UrlError
        ELSE IF scheme \in UsesParams /\ cut > 0
        THEN Parsed(scheme, netloc, SubSeq(path, 1, cut - 1))
        ELSE Parsed(scheme, netloc, path)

\* parse_qs(...).get(key, [None])[0], lines 21-24: the first value of the
\* key that is not blank; <<>> stands for None
QueryGet(values) ==
    LET kept == SelectSeq(values, LAMBDA v : v # <<>>)
    IN  IF kept = <<>> THEN <<>> ELSE <<kept[1]>>

\* what extract_proxy_params gives back
ReturnsNone ==
    [kind |-> "None", server |-> <<>>, port |-> 0, secret |-> <<>>]
RaisesValueError ==
    [kind |-> "ValueError", server |-> <<>>, port |-> 0, secret |-> <<>>]
ReturnsTuple(server, port, secret) ==
    [kind |-> "tuple", server |-> server, port |-> port, secret |-> secret]

\* a decoder without the hexadecimal branch of lines 35-36
SecretBytesAlwaysBase64(secret_encoded) ==
    UrlsafeB64decode(ReplacePercent3D(secret_encoded))

\* lines 35-42: the bytes of the secret
SecretBytes(secret_encoded) ==
    IF LooksHex(secret_encoded)
    THEN FromHex(secret_encoded)
    ELSE UrlsafeB64decode(ReplacePercent3D(secret_encoded))

\* 'https', 't.me' and '/proxy', line 18, and the text of line 108
Https == <<"h", "t", "t", "p", "s">>
TMe == <<"t", ".", "m", "e">>
SlashProxy == <<"/", "p", "r", "o", "x", "y">>
ProxyPrefix == Https \o <<":", "/", "/">> \o TMe \o SlashProxy

\* extract_proxy_params, lines 11-45: urlparse at line 17, and lines
\* 18-45 for what it gave
ExtractProxyParams(u) ==
    LET FromParsed(parsed) ==
            IF ~parsed.ok
            \* line 17 is not inside a try
            THEN RaisesValueError
            ELSE IF \/ parsed.scheme # Https
                    \/ parsed.netloc # TMe
                    \/ parsed.path # SlashProxy
            THEN ReturnsNone
            ELSE LET server == QueryGet(u.server)
                     port_str == QueryGet(u.port)
                     secret_encoded == QueryGet(u.secret)
                 IN  IF \/ server = <<>>
                        \/ port_str = <<>>
                        \/ secret_encoded = <<>>
                     THEN ReturnsNone
                     ELSE IF IntOf(port_str[1]) = <<>>
                     THEN ReturnsNone
                     ELSE LET secret_bytes == SecretBytes(secret_encoded[1])
                          IN  IF secret_bytes.ok
                              THEN ReturnsTuple(server[1],
                                                IntOf(port_str[1])[1],
                                                BytesHex(secret_bytes.bytes))
                              ELSE IF LooksHex(secret_encoded[1])
                              \* line 36 is not inside a try
                              THEN RaisesValueError
                              \* lines 41-42
                              ELSE ReturnsNone
    IN  FromParsed(Urlparse(u.address))

(* ---------------------------- the arguments ---------------------------- *)

\* the text of a link up to its query, as it is written
Address(scheme, netloc, path) == scheme \o <<":", "/", "/">> \o netloc \o path

\* a link that parses: https://t.me/proxy?server=h&port=443&secret=dd00
GoodUrl ==
    [address |-> ProxyPrefix,
     server |-> << <<"h">> >>,
     port |-> << <<"4", "4", "3">> >>,
     secret |-> << <<"d", "d", "0", "0">> >>]

\* https, http, HTTPS, https with a tab inside and with a space in front,
\* and a scheme that does not start with a letter
Schemes ==
    {Https, <<"h", "t", "t", "p">>, <<"H", "T", "T", "P", "S">>,
     <<"h", "t", "U+0009", "t", "p", "s">>, <<" ">> \o Https,
     <<"1">> \o Https}

\* t.me, another host, T.ME, no host, a host with one bracket, a host
\* with the account-of sign U+2100, and hosts in brackets: t.me, an IPv4
\* address, two IPv6 addresses and an IPvFuture address
Netlocs ==
    {TMe, <<"e", "x", "a", "m", "p", "l", "e", ".", "o", "r", "g">>,
     <<"T", ".", "M", "E">>, <<>>, <<"[">> \o TMe, TMe \o <<"U+2100">>,
     <<"[">> \o TMe \o <<"]">>,
     <<"[", "1", ".", "2", ".", "3", ".", "4", "]">>,
     <<"[", ":", ":", "1", "]">>,
     <<"[", ":", ":", "1", ".", "2", ".", "3", ".", "4", "]">>,
     <<"[", "v", "1", ".", "t", "]">>}

\* /proxy, another path, /proxy with more letters, with a slash, with
\* parameters, and no path
Paths ==
    {SlashProxy, <<"/", "s", "o", "c", "k", "s">>,
     SlashProxy \o <<"f", "o", "o">>, SlashProxy \o <<"/">>,
     SlashProxy \o <<";", "x">>, <<>>}

\* the values of the key server: none, a blank one, a blank one and h
ServerValues == {<<>>, << <<>> >>, << <<"h">> >>, << <<>>, <<"h">> >>}

\* numbers in and out of the range of ports, with a sign, with blanks
\* (space, tab, line feed, no-break space, em space) at the ends, with an
\* underscore, in Extended Arabic-Indic and in fullwidth digits; and
\* texts that are no number, the unit separator U+001F in front of a
\* digit among them; and numerals of IntMaxStrDigits digits and of one
\* more
PortStrings ==
    {[i \in 1..IntMaxStrDigits |-> "0"],
     [i \in 1..(IntMaxStrDigits + 1) |-> "0"],
     [i \in 1..IntMaxStrDigits |-> IF i = IntMaxStrDigits THEN "7" ELSE "0"],
     [i \in 1..(IntMaxStrDigits + 1) |->
         IF i = IntMaxStrDigits + 1 THEN "7" ELSE "0"],
     <<"4", "4", "3">>, <<"0">>, <<"6", "5", "5", "3", "5">>,
     <<"6", "5", "5", "3", "6">>, <<"-", "1">>, <<"+", "5">>,
     <<" ", "7">>, <<"1", "_", "0">>, <<"x">>, <<"4", "x">>,
     <<"1", "_">>, <<"-">>,
     <<"U+0009", "4", "4", "3">>, <<"4", "4", "3", "U+000A">>,
     <<"U+00A0", "7", "U+2003">>, <<"U+06F4", "U+06F4", "U+06F3">>,
     <<"U+FF14", "U+FF14", "U+FF13">>, <<"4", "U+06F4">>,
     <<"U+001F", "7">>, <<"4", " ", "4">>, <<"U+00E9">>}

PortValues == {<<>>} \cup {<<t>> : t \in PortStrings}

\* hexadecimal digits in both cases, a letter that is no hexadecimal
\* digit, the padding character, the characters of %3D and a letter
\* outside ASCII
SecretAlphabet == {"d", "e", "3", "D", "g", "=", "%", "U+00E9"}

SecretStrings ==
    UNION {[1..n -> SecretAlphabet] : n \in 0..MaxSecretLen}

SecretValues == {<<>>} \cup {<<t>> : t \in SecretStrings}

Urls ==
    {[GoodUrl EXCEPT !.address = Address(s, n, p)] :
        s \in Schemes, n \in Netlocs, p \in Paths}
    \cup {[GoodUrl EXCEPT !.server = sv, !.port = pv] :
        sv \in ServerValues, pv \in PortValues}
    \cup {[GoodUrl EXCEPT !.port = pv, !.secret = xv] :
        pv \in {<< <<"4", "4", "3">> >>, << <<"0">> >>},
        xv \in SecretValues}

InitParse ==
    /\ pc = "closed"
    /\ nTasks = 0
    /\ started = 0
    /\ waiting = 0
    /\ woken = 0
    /\ lastWake = 0
    /\ connecting = 0
    /\ disconnecting = 0
    /\ sem = SemaphoreValue
    /\ completed = <<>>
    /\ doneQ = <<>>
    /\ consumed = 0
    /\ cancelReq = FALSE
    /\ result = <<>>
    /\ halfOpen = 0
    /\ lastEnd = "none"
    /\ SupIdle
    /\ LoadIdle
    /\ xpc = "call"
    /\ proxy_url \in Urls
    /\ extracted = [kind |-> "pending", server |-> <<>>, port |-> 0,
                    secret |-> <<>>]

\* one call of extract_proxy_params(proxy_url)
Extract ==
    /\ xpc = "call"
    /\ extracted' = ExtractProxyParams(proxy_url)
    /\ xpc' = "done"
    /\ UNCHANGED <<proxy_url, probeVars, supVars, loadVars>>

NextParse == Extract

SpecParse == InitParse /\ [][NextParse]_vars

(***************************************************************************)
(*       load_and_test_proxies_from_file, initialize_client_with_proxy     *)
(***************************************************************************)

\* a line of the file after strip(): nothing, a text that is no link
\* (# my proxies), or a link, a text of the form address?query
BlankLine == [text |-> "blank", url |-> GoodUrl]
OtherLine == [text |-> "other", url |-> GoodUrl]
Link(u) == [text |-> "link", url |-> u]

\* line 108, url.startswith('https://t.me/proxy'): a test of the text as
\* it is written.  The query starts with ?, which is not in the prefix:
\* the text starts with the prefix when its address does.
StartsWithProxy(u) ==
    /\ Len(u.address) >= Len(ProxyPrefix)
    /\ SubSeq(u.address, 1, Len(ProxyPrefix)) = ProxyPrefix

\* the line is passed to extract_proxy_params (lines 107-109)
IsProxyLine(line) == line.text = "link" /\ StartsWithProxy(line.url)

\* links: two that parse, one with a port that is no number, one with a
\* base64 secret that does not decode, one of another site, one whose
\* secret makes bytes.fromhex raise, one whose path goes on after /proxy
\* and one whose scheme is in capital letters
SecondUrl ==
    [GoodUrl EXCEPT !.server = << <<"i">> >>,
                    !.secret = << <<"e", "e", "3", "3">> >>]
BadPortUrl == [GoodUrl EXCEPT !.port = << <<"x">> >>]
LongPortUrl ==
    [GoodUrl EXCEPT !.port = << [i \in 1..(IntMaxStrDigits + 1) |-> "0"] >>]
BadBase64Url == [GoodUrl EXCEPT !.secret = << <<"g">> >>]
OtherSiteUrl ==
    [GoodUrl EXCEPT
        !.address =
            Address(Https,
                    <<"e", "x", "a", "m", "p", "l", "e", ".", "o", "r", "g">>,
                    SlashProxy)]
OddHexUrl == [GoodUrl EXCEPT !.secret = << <<"d", "d", "3">> >>]
LongPathUrl ==
    [GoodUrl EXCEPT
        !.address = Address(Https, TMe, SlashProxy \o <<"f", "o", "o">>)]
CapitalSchemeUrl ==
    [GoodUrl EXCEPT
        !.address = Address(<<"H", "T", "T", "P", "S">>, TMe, SlashProxy)]

FileLines ==
    {BlankLine, OtherLine, Link(GoodUrl), Link(SecondUrl), Link(BadPortUrl),
     Link(BadBase64Url), Link(OtherSiteUrl), Link(OddHexUrl),
     Link(LongPathUrl), Link(CapitalSchemeUrl)}

\* the files of up to MaxLines lines, and two with a line whose port has
\* more than IntMaxStrDigits digits: alone, and between two lines that
\* give a candidate
Files ==
    UNION {[1..n -> FileLines] : n \in 0..MaxLines}
    \cup {<<Link(LongPortUrl)>>,
          <<Link(GoodUrl), Link(LongPortUrl), Link(SecondUrl)>>}

\* the files the whole start-up is followed with: the short ones, and
\* one with more candidates than the gate of the scheduler admits at a
\* time
StartupLines == {OtherLine, Link(GoodUrl), Link(OddHexUrl)}
StartupFiles ==
    UNION {[1..n -> StartupLines] : n \in 0..MaxStartupLines}
    \cup {[i \in 1..MaxCandidates |-> Link(GoodUrl)]}

\* the program is started: nothing of client.py has run
Unstarted ==
    /\ pc = "idle"
    /\ nTasks = 0
    /\ started = 0
    /\ waiting = 0
    /\ woken = 0
    /\ lastWake = 0
    /\ connecting = 0
    /\ disconnecting = 0
    /\ sem = SemaphoreValue
    /\ completed = <<>>
    /\ doneQ = <<>>
    /\ consumed = 0
    /\ cancelReq = FALSE
    /\ result = <<>>
    /\ halfOpen = 0
    /\ lastEnd = "none"
    /\ SupIdle
    /\ ParseIdle
    /\ lpc = "start"
    /\ line_no = 0
    /\ proxy_tuples = <<>>
    /\ proxy_info = <<>>
    /\ connection = NoConnection

\* the proxy file: missing, there and unreadable (a directory, a file
\* that may not be read, bytes that are not UTF-8), or a text
InitLoad ==
    /\ Unstarted
    /\ file_exists \in BOOLEAN
    /\ file_readable \in IF file_exists THEN BOOLEAN ELSE {FALSE}
    /\ lines \in IF file_readable THEN Files ELSE {<<>>}

InitStartup ==
    /\ Unstarted
    /\ file_exists \in BOOLEAN
    /\ file_readable \in IF file_exists THEN BOOLEAN ELSE {FALSE}
    /\ lines \in IF file_readable THEN StartupFiles ELSE {<<>>}

(* tester_proxy.save_proxies_to_file(proxy_list), lines 11-30, before the  *)
(* program reads the file: the lines of proxy_list are written in front of *)
(* the text the file held.  With an empty proxy_list and a text in the     *)
(* file, '\n'.join gives the empty text and line 25 puts a line feed in    *)
(* front of the old text: a blank first line.  A file that cannot be read  *)
(* makes line 18 or 19 raise, and nothing is written.                      *)
SavedLines(proxy_list, old) ==
    IF old = <<>> THEN proxy_list
    ELSE IF proxy_list = <<>> THEN <<BlankLine>> \o old
    ELSE proxy_list \o old

SaveProxiesToFile(proxy_list) ==
    /\ lpc = "start"
    /\ file_exists => file_readable
    /\ lines' = SavedLines(proxy_list, lines)
    /\ file_exists' = TRUE
    /\ file_readable' = TRUE
    /\ UNCHANGED <<lpc, line_no, proxy_tuples, proxy_info, connection,
                   probeVars, supVars, parseVars>>

\* the lists save_proxies_to_file is called with: texts of one line that
\* are not blank
SavedLists(line_set) ==
    UNION {[1..n -> line_set \ {BlankLine}] : n \in 0..MaxSaved}

\* the calls that leave a file of at most MaxLines lines, and those that
\* leave one of at most MaxStartupLines lines
SaveLoadFile ==
    \E proxy_list \in SavedLists(FileLines) :
        /\ Len(SavedLines(proxy_list, lines)) <= MaxLines
        /\ SaveProxiesToFile(proxy_list)
SaveStartupFile ==
    \E proxy_list \in SavedLists(StartupLines) :
        /\ Len(SavedLines(proxy_list, lines)) <= MaxStartupLines
        /\ SaveProxiesToFile(proxy_list)

\* lines 99-105: no file, return None; else read the lines
LoadOpen ==
    /\ lpc = "start"
    /\ file_exists => file_readable
    /\ lpc' = IF file_exists THEN "lines" ELSE "closing"
    /\ UNCHANGED <<file_exists, file_readable, lines, line_no, proxy_tuples, proxy_info,
                   connection, probeVars, supVars, parseVars>>

\* lines 102-103: open() or readlines() raises (IsADirectoryError,
\* PermissionError, UnicodeDecodeError); nothing catches it, and it
\* leaves asyncio.run (line 127) and the import of client.py (line 152)
LoadOpenRaises ==
    /\ lpc = "start"
    /\ file_exists
    /\ ~file_readable
    /\ lpc' = "raised"
    /\ UNCHANGED <<file_exists, file_readable, lines, line_no, proxy_tuples, proxy_info,
                   connection, probeVars, supVars, parseVars>>

\* lines 106-113, one turn of the loop over the lines
LoadLine ==
    /\ lpc = "lines"
    /\ line_no < Len(lines)
    /\ line_no' = line_no + 1
    /\ \E line \in {lines[line_no + 1]} :
         \E info \in {ExtractProxyParams(line.url)} :
           IF ~IsProxyLine(line) \/ info.kind = "None"
           \* lines 108-109 `continue`, or line 112 with None
           THEN UNCHANGED <<lpc, proxy_tuples>>
           ELSE IF info.kind = "tuple"
           \* line 113
           THEN /\ proxy_tuples' = Append(proxy_tuples, info)
                /\ UNCHANGED lpc
           \* the ValueError of lines 17 and 36 leaves the function at line 111
           ELSE /\ lpc' = "raised"
                /\ UNCHANGED proxy_tuples
    /\ UNCHANGED <<file_exists, file_readable, lines, proxy_info, connection,
                   probeVars, supVars, parseVars>>

\* lines 115-119 after the last line: return None when nothing was
\* collected, else call find_working_proxy_async(proxy_tuples)
LoadLinesDone ==
    /\ lpc = "lines"
    /\ line_no = Len(lines)
    /\ IF proxy_tuples = <<>>
       THEN /\ lpc' = "closing"
            /\ UNCHANGED <<pc, nTasks>>
       ELSE /\ lpc' = "testing"
            /\ pc' = "call"
            /\ nTasks' = Len(proxy_tuples)
    /\ UNCHANGED <<started, waiting, woken, lastWake, connecting, disconnecting, sem,
                   completed, doneQ, consumed, cancelReq, result, halfOpen,
                   file_exists, file_readable, lines, line_no, proxy_tuples, proxy_info,
                   connection, supVars, parseVars>>
    /\ UNCHANGED lastEnd

\* line 119: find_working_proxy_async has returned, and so does
\* load_and_test_proxies_from_file with the same value
LoadReturn ==
    /\ lpc = "testing"
    /\ pc = "returned"
    /\ proxy_info' = result
    /\ lpc' = "closing"
    /\ UNCHANGED <<file_exists, file_readable, lines, line_no, proxy_tuples, connection,
                   probeVars, supVars, parseVars>>

\* line 119: find_working_proxy_async has raised, and so does
\* load_and_test_proxies_from_file; asyncio.run (line 127) cancels the
\* tasks that are left and waits for them before the exception leaves
\* client.py
LoadRaised ==
    /\ lpc = "testing"
    /\ pc = "raised"
    /\ lpc' = "raised"
    /\ cancelReq' = TRUE
    /\ UNCHANGED <<pc, nTasks, started, waiting, woken, lastWake, connecting,
                   disconnecting, sem, completed, doneQ, consumed, result,
                   halfOpen, lastEnd, file_exists, file_readable, lines, line_no,
                   proxy_tuples, proxy_info, connection, supVars, parseVars>>

\* a client that is always built for the direct connection
ConnectionAlwaysDirect(info) ==
    [type |-> "ConnectionTcpFull", proxy |-> <<>>]

\* lines 130-137: the connection for what the loader gave
ConnectionFor(info) ==
    IF info # <<>>
    THEN [type |-> "ConnectionTcpMTProxyRandomizedIntermediate",
          proxy |-> info]
    ELSE [type |-> "ConnectionTcpFull", proxy |-> <<>>]

\* an asyncio.run that returns with the result of its coroutine while
\* tasks are still running
InitializeClientEarly ==
    /\ lpc = "closing"
    /\ lpc' = "configured"
    /\ pc' = "closed"
    /\ nTasks' = 0
    /\ started' = 0
    /\ waiting' = 0
    /\ woken' = 0
    /\ lastWake' = 0
    /\ connecting' = 0
    /\ disconnecting' = 0
    /\ sem' = SemaphoreValue
    /\ completed' = <<>>
    /\ doneQ' = <<>>
    /\ consumed' = 0
    /\ cancelReq' = FALSE
    /\ result' = <<>>
    /\ halfOpen' = 0
    /\ lastEnd' = "none"
    /\ connection' = ConnectionFor(proxy_info)
    /\ UNCHANGED <<file_exists, file_readable, lines, line_no, proxy_tuples,
                   proxy_info, supVars, parseVars>>

\* lines 127-148 and 152: asyncio.run returns once the tasks it cancelled
\* on the way out have finished and the loop is closed (the tasks of
\* find_working_proxy_async, their results and the semaphore are gone
\* with it); the client is then built with the connection chosen
InitializeClient ==
    /\ lpc = "closing"
    /\ AllDone
    /\ lpc' = "configured"
    /\ pc' = "closed"
    /\ nTasks' = 0
    /\ started' = 0
    /\ waiting' = 0
    /\ woken' = 0
    /\ lastWake' = 0
    /\ connecting' = 0
    /\ disconnecting' = 0
    /\ sem' = SemaphoreValue
    /\ completed' = <<>>
    /\ doneQ' = <<>>
    /\ consumed' = 0
    /\ cancelReq' = FALSE
    /\ result' = <<>>
    /\ halfOpen' = 0
    /\ lastEnd' = "none"
    /\ connection' = ConnectionFor(proxy_info)
    /\ UNCHANGED <<file_exists, file_readable, lines, line_no, proxy_tuples,
                   proxy_info, supVars, parseVars>>

NextLoad ==
    \/ SaveLoadFile
    \/ LoadOpen
    \/ LoadOpenRaises
    \/ LoadLine
    \/ LoadLinesDone

SpecLoad == InitLoad /\ [][NextLoad]_vars

\* the program from its start: client.py is imported (the file is read,
\* the candidates are probed, the client is built), then main() runs
\* run_with_reconnect
NextStartup ==
    \/ SaveStartupFile
    \/ LoadOpen
    \/ LoadOpenRaises
    \/ LoadLine
    \/ LoadLinesDone
    \/ Call
    \/ TaskStart
    \/ TaskStartRaises
    \/ ConnectFail
    \/ ConnectOk
    \/ DisconnectOk
    \/ DisconnectFail
    \/ MainNext
    \/ CancelWaiting
    \/ CancelConnecting
    \/ CancelDisconnecting
    \/ WokenStart
    \/ WokenRaises
    \/ CancelWoken
    \/ LoadReturn
    \/ LoadRaised
    \/ InitializeClient
    \/ NextSupervisor

SpecStartup == InitStartup /\ [][NextStartup]_vars


(***************************************************************************)
(*                               properties                                *)
(***************************************************************************)

\* find_working_proxy_async has returned a candidate
ReturnedCandidate == pc = "returned" /\ result # <<>>

\* find_working_proxy_async has returned None
ReturnedNone == pc = "returned" /\ result = <<>>

(* C1: at no moment of a round are more than SemaphoreValue (20) probe     *)
(* tasks inside the admission gate, that is between acquiring a slot and   *)
(* leaving test_single_proxy.                                              *)
C1_GateNeverExceeded == InGate <= SemaphoreValue

\* the gate is full and a task is held back by it
C1_Witness == InGate = SemaphoreValue /\ waiting > 0

(* C2: if exactly one candidate succeeds, find_working_proxy_async returns *)
(* it, and every other probe task has ended (finished, or been cancelled   *)
(* with the cancellation having taken effect) by the time it returns.      *)
C2_OthersEndedAtReturn ==
    (ReturnedCandidate /\ Successes = 1) =>
        /\ completed[result[1]] = "Success"
        /\ AllDone

(* C3: a probe task cancelled once its connect attempt has started has had *)
(* the disconnect path invoked for its connection: no cancelled probe is   *)
(* left with a connection it opened and never asked to close.              *)
C3_NoHalfOpenConnection == halfOpen = 0

(* C4: whenever the supervisor is in Running (run_until_disconnected),     *)
(* backoff_time equals the floor BACKOFF_START.                            *)
C4_RunningAtFloor == spc \in Running => backoff_time = BACKOFF_START

\* an await of the try body, lines 20-36, raises an exception of a kind of K
RaisesInTry(K) ==
    /\ StartErr \/ AuthCheckErr \/ ReauthErr \/ RunningErr
    /\ raised'.kind \in K

(* C5: for every AuthKeyUnregisteredError the supervisor handles, the      *)
(* session file delete (os.remove) is invoked exactly once before the next *)
(* start attempt: when the restart of line 56 is made, os.remove has been  *)
(* invoked once since the error.                                           *)
C5_DeleteExactlyOnce == spc = "restart" => deleteCalls = 1

(* C5 as amended: an AuthKeyUnregisteredError raised by an await of the    *)
(* try body (lines 20-36) is taken by the clause of line 44, and before    *)
(* the restart of line 56 os.remove is invoked exactly once when the       *)
(* session file exists at that moment and not at all when it does not.     *)
(* An AuthKeyUnregisteredError raised by that restart is taken by the      *)
(* `except Exception` of line 58: no os.remove is invoked, whether the     *)
(* file exists or not, and the sleep of line 61 comes next.                *)
C5_DeleteOnceIfPresent ==
    /\ [][RaisesInTry({"AuthKeyUnregisteredError"}) =>
            /\ spc' = "delete"
            /\ deleteCalls' = 0]_vars
    /\ [][spc' = "delete" => RaisesInTry({"AuthKeyUnregisteredError"})]_vars
    /\ [][spc = "delete" =>
            /\ spc' = "restart"
            /\ existsSeen' = session_file
            /\ deleteCalls' = deleteCalls + (IF session_file THEN 1 ELSE 0)
            /\ ~session_file => ~session_file']_vars
    /\ [](spc = "restart" =>
            /\ raised.kind = "AuthKeyUnregisteredError"
            /\ raised.at \in TryBody
            /\ deleteCalls = (IF existsSeen THEN 1 ELSE 0))
    /\ [][(spc = "restart" /\ raised' # raised) =>
            /\ raised'.at = "restart"
            /\ deleteCalls' = deleteCalls
            /\ session_file' = session_file
            /\ IsException(raised'.kind) => spc' = "restart_sleep"]_vars
    /\ [][spc \notin TryBody \cup {"delete"} =>
            deleteCalls' = deleteCalls]_vars

\* the restart raised an AuthKeyUnregisteredError while the session file
\* was still there (os.remove had been invoked once and had failed): the
\* sleep of line 61 is entered and os.remove has not been invoked again
C5_Witness ==
    /\ spc = "restart_sleep"
    /\ raised.kind = "AuthKeyUnregisteredError"
    /\ raised.at = "restart"
    /\ session_file
    /\ existsSeen
    /\ deleteCalls = 1

(* C6: no error raised in any phase of the supervisor (connect,           *)
(* authorization check, Running, credential invalidation and its restart,  *)
(* backoff sleep) leaves run_with_reconnect.                               *)
C6_NoErrorEscapes == spc # "raised"

(* C7: a probe failure of any kind gives None for that candidate and never *)
(* leaves find_working_proxy_async as an exception: the function returns   *)
(* one candidate of the list or None. No task ends with an exception and   *)
(* the function never ends with one.                                       *)
C7_SchedulerTotal ==
    /\ pc # "raised"
    /\ \A i \in 1..Len(completed) : completed[i] # "Raised"
    /\ pc = "returned" => (result = <<>> \/ result[1] \in 1..nTasks)

(* C8: the candidate returned is one whose probe reported Success, no      *)
(* probe that completed earlier reported Success, and the function returns *)
(* at that first success: it hands out nothing after it and waits for no   *)
(* slower probe.                                                           *)
C8_FirstSuccessWins ==
    /\ ReturnedCandidate =>
          /\ result[1] \in 1..Len(completed)
          /\ completed[result[1]] = "Success"
          /\ \A q \in 1..(result[1] - 1) : completed[q] # "Success"
          /\ consumed = result[1]
    /\ \A q \in 1..consumed :
          completed[q] = "Success" => (ReturnedCandidate /\ result = <<q>>)

\* two probes succeeded, the one that completed first was returned after
\* an earlier failure, while other probes were still connecting
C8_Witness ==
    /\ ReturnedCandidate
    /\ result[1] > 1
    /\ Successes = 2
    /\ connecting > 0
    /\ ~AllDone

(* C9: None is returned for a non-empty list only after every probe task   *)
(* has completed; never while a task is pending or running.                *)
C9_NoneOnlyAfterAll ==
    ReturnedNone =>
        /\ AllDone
        /\ consumed = nTasks
        /\ started = nTasks
        /\ waiting = 0
        /\ InGate = 0
        /\ \A i \in 1..Len(completed) : completed[i] = "Failure"

\* None after a round in which tasks had to wait for a slot
C9_Witness == ReturnedNone /\ nTasks > SemaphoreValue

(* C10: every task inside the gate holds exactly one slot, taken before    *)
(* its connect attempt and given back on every way out (success, failure,  *)
(* timeout, cancellation, an exception of the constructor); the slots not  *)
(* free are those of the tasks inside the gate and of the tasks a release  *)
(* has handed a slot to; once all tasks have ended the free slots are      *)
(* SemaphoreValue again.                                                   *)
C10_SlotsConserved ==
    /\ sem >= 0
    /\ sem + InGate + woken = SemaphoreValue
    /\ AllDone => sem = SemaphoreValue

\* a round with more tasks than slots has ended through cancellation, with
\* a task cancelled while waiting for a slot and one cancelled in connect
C10_Witness ==
    /\ AllDone
    /\ nTasks = SemaphoreValue + 2
    /\ completed[1] = "Success"
    /\ \A i \in 2..Len(completed) : completed[i] = "Cancelled"
    /\ halfOpen > 0
    /\ cancelReq
    /\ sem = SemaphoreValue

\* OSError, ConnectionError, TimeoutError; asyncio.CancelledError
TransientNetwork == {"OSError", "CancelledError"}

\* an RPCError without a clause of its own; any other Exception
GenericError == {"RPCError", "Exception"}

(* C11: after a transient network error (OSError, ConnectionError,         *)
(* TimeoutError, CancelledError) raised in Connecting, Authorizing or      *)
(* Running, the supervisor is next at the top of the loop (Connecting),    *)
(* backoff_time equals BACKOFF_START and no sleep was entered on the way.  *)
C11_TransientRetriesAtOnce ==
    [][RaisesInTry(TransientNetwork) =>
          /\ spc' = "loop"
          /\ spc' \in Connecting
          /\ backoff_time' = BACKOFF_START
          /\ slept' = slept]_vars

\* run_until_disconnected was cancelled after a failed restart had doubled
\* the backoff (the only sleep so far was that of the failed restart)
C11_Witness ==
    /\ raised.kind = "CancelledError"
    /\ raised.at = "running"
    /\ lastError = "CancelledError"
    /\ spc = "loop"
    /\ backoff_time = BACKOFF_START
    /\ slept = BACKOFF_START
    /\ wait_time = 0

(* C12: after a FloodWaitError with seconds = w, whatever call raised it,  *)
(* the sleep the supervisor enters lasts exactly max(w, backoff_time).     *)
C12_FloodSleepsMandatedWait ==
    (raised.kind = "FloodWaitError" /\ spc \in BackingOff) =>
        slept = Max(raised.seconds, backoff_time)

(* C12 as amended: after a FloodWaitError with seconds = w raised in       *)
(* Connecting, Authorizing or Running the supervisor sleeps exactly        *)
(* max(w, backoff_time), backoff_time stays as it was, and the position    *)
(* after the sleep is the top of the loop (Connecting), no client call     *)
(* being made before; a sleep that is cancelled ends run_with_reconnect    *)
(* with CancelledError instead; a FloodWaitError raised by the restart of  *)
(* line 56 is handled as a failed restart, with a sleep of backoff_time.   *)
C12_FloodInTrySleepsMandatedWait ==
    /\ [](spc = "flood_sleep" =>
            /\ raised.kind = "FloodWaitError"
            /\ raised.at \in TryBody
            /\ wait_time = raised.seconds
            /\ slept = Max(raised.seconds, backoff_time))
    /\ []((raised.kind = "FloodWaitError" /\ spc = "restart_sleep") =>
            /\ raised.at = "restart"
            /\ slept = backoff_time)
    /\ [][RaisesInTry({"FloodWaitError"}) =>
            /\ spc' = "flood_sleep"
            /\ backoff_time' = backoff_time]_vars
    /\ [][spc = "flood_sleep" =>
            /\ backoff_time' = backoff_time
            /\ \/ spc' = "loop"
               \/ spc' = "raised" /\ raised'.kind = "CancelledError"]_vars

\* a wait shorter than the backoff: the sleep is the doubled backoff
C12_Witness ==
    /\ spc = "flood_sleep"
    /\ wait_time = 1
    /\ backoff_time = 2
    /\ slept = 2

(* C13: after an AuthKeyUnregisteredError the supervisor resets            *)
(* backoff_time to BACKOFF_START and attempts a restart; when the restart  *)
(* fails it does not abort: it sleeps backoff_time, and then doubles it    *)
(* and returns to the top of the loop.                                     *)
C13_FailedRestartBacksOff ==
    /\ spc \in {"restart", "restart_sleep"} => backoff_time = BACKOFF_START
    /\ spc = "restart_sleep" => slept = backoff_time
    /\ raised.at = "restart" => spc # "raised"

(* C14: backoff_time grows only on the step taken after the sleep that   *)
(* follows a retry which failed without a specific classification, and     *)
(* then becomes min(2 * backoff_time, BACKOFF_MAX); every other step sets  *)
(* it to BACKOFF_START or leaves it as it is.                              *)
C14_BackoffGrowsOnlyAfterUnclassifiedRetry ==
    [][IF spc = "restart_sleep" /\ spc' # "raised"
       THEN /\ backoff_time' = Min(2 * backoff_time, BACKOFF_MAX)
            /\ raised.at = "restart"
            /\ raised.kind = "Exception"
            /\ spc' = "loop"
       ELSE backoff_time' \in {backoff_time, BACKOFF_START}]_vars

(* C14 as amended: backoff_time grows only when the sleep that follows a   *)
(* failed restart (line 56) ends, whatever Exception the restart raised:   *)
(* OSError, AuthKeyUnregisteredError, FloodWaitError, any other RPCError   *)
(* or any other Exception; it then becomes                                 *)
(* min(2 * backoff_time, BACKOFF_MAX).  Every other step, the cancellation *)
(* of that sleep included, sets it to BACKOFF_START or leaves it as it is. *)
C14_BackoffGrowsOnlyAfterFailedRestart ==
    [][IF spc = "restart_sleep" /\ spc' # "raised"
       THEN /\ backoff_time' = Min(2 * backoff_time, BACKOFF_MAX)
            /\ raised.at = "restart"
            /\ IsException(raised.kind)
            /\ spc' = "loop"
       ELSE backoff_time' \in {backoff_time, BACKOFF_START}]_vars

\* the restart raised a FloodWaitError, an error with a clause of its own
\* in the try body: the sleep has ended and the backoff has doubled
C14_Witness ==
    /\ spc = "loop"
    /\ raised.at = "restart"
    /\ raised.kind = "FloodWaitError"
    /\ backoff_time = 2 * BACKOFF_START

(* C15: in every reachable state BACKOFF_START <= backoff_time <=          *)
(* BACKOFF_MAX, and the duration of every sleep that is not the sleep of a *)
(* FloodWaitError lies within the same bounds.                             *)
C15_BackoffWithinBounds ==
    /\ BACKOFF_START <= backoff_time
    /\ backoff_time <= BACKOFF_MAX
    /\ spc = "restart_sleep" =>
          (BACKOFF_START <= slept /\ slept <= BACKOFF_MAX)

\* the sleep of a failed restart, entered with the session file already
\* gone: an earlier AuthKeyUnregisteredError had removed it
C15_Witness ==
    /\ spc = "restart_sleep"
    /\ ~existsSeen
    /\ slept = BACKOFF_START

(* C16: the supervisor has no terminal state: as long as every sleep ends  *)
(* and every call of the client returns or raises, it is at the top of     *)
(* the loop (Connecting) again and again, whatever errors are raised.      *)
C16_AlwaysReconnects == []<>(spc = "loop")

(* C17: after an RPCError without a clause of its own, or any other        *)
(* Exception, whatever call raised it, the supervisor retries at once      *)
(* (no sleep is entered) with backoff_time equal to BACKOFF_START.         *)
C17_GenericErrorRetriesAtOnce ==
    raised.kind \in GenericError =>
        /\ spc \notin BackingOff
        /\ backoff_time = BACKOFF_START

(* C17 as amended: after such an error raised in Connecting, Authorizing   *)
(* or Running the supervisor is next at the top of the loop (Connecting),  *)
(* with backoff_time equal to BACKOFF_START and without a sleep; raised by *)
(* the restart of line 56 it is followed by a sleep of backoff_time and    *)
(* the doubling.                                                           *)
C17_GenericErrorInTryRetriesAtOnce ==
    /\ []((raised.kind \in GenericError /\ raised.at \in TryBody) =>
            /\ spc \in TryBody
            /\ backoff_time = BACKOFF_START)
    /\ [][RaisesInTry(GenericError) =>
            /\ spc' = "loop"
            /\ backoff_time' = BACKOFF_START
            /\ slept' = slept]_vars
    /\ [][(spc = "restart" /\ raised'.kind \in GenericError
                           /\ raised'.at = "restart") =>
            /\ spc' = "restart_sleep"
            /\ slept' = backoff_time]_vars

\* an unclassified exception of the authorization check, raised after a
\* failed restart had doubled the backoff
C17_Witness ==
    /\ raised.kind = "Exception"
    /\ raised.at = "authcheck"
    /\ lastError = "Exception"
    /\ spc = "loop"
    /\ backoff_time = BACKOFF_START
    /\ slept = BACKOFF_START
    /\ wait_time = 0

(* C18: when client.is_user_authorized() answers False the supervisor      *)
(* calls the start sequence again (line 30): its next phase is Connecting, *)
(* not Running; Running is entered from the check only on the answer True. *)
C18_UnauthorizedRestarts ==
    /\ [](spc = "reauth" => ~is_authorized)
    /\ [][(spc = "authcheck" /\ spc' \in {"running", "reauth"}) =>
            IF is_authorized'
            THEN spc' \in Running
            ELSE /\ spc' = "reauth"
                 /\ spc' \in Connecting
                 /\ spc' \notin Running]_vars

\* the check answered False after an earlier one had let the supervisor
\* into Running: the start sequence of line 30 is under way
C18_Witness ==
    /\ spc = "reauth"
    /\ ~is_authorized
    /\ raised.at = "running"

\* extract_proxy_params has returned or raised
Extracted == xpc = "done"

\* the scheme, host or path is not that of a proxy link
WrongShape(u) ==
    LET parsed == Urlparse(u.address)
    IN  \/ ~parsed.ok
        \/ parsed.scheme # Https
        \/ parsed.netloc # TMe
        \/ parsed.path # SlashProxy

\* server, port or secret has no value that is not blank
MissingField(u) ==
    \E values \in {u.server, u.port, u.secret} :
        \A i \in 1..Len(values) : values[i] = <<>>

\* the port is not a number
NonNumericPort(u) == IntOf(QueryGet(u.port)[1]) = <<>>

\* the secret cannot be decoded: hexadecimal by its look with a digit
\* left over, or not valid base64
UndecodableSecret(u) == ~SecretBytes(QueryGet(u.secret)[1]).ok

Malformed(u) ==
    \/ WrongShape(u)
    \/ MissingField(u)
    \/ ~MissingField(u) /\ (NonNumericPort(u) \/ UndecodableSecret(u))

(* C19: for every malformed line (wrong scheme, host or path; server,      *)
(* port or secret missing; port not a number; secret that cannot be        *)
(* decoded, a dd/ee text of hexadecimal digits of odd length included)     *)
(* extract_proxy_params returns None, and it never raises.                 *)
C19_MalformedGivesNone ==
    Extracted =>
        /\ extracted.kind # "ValueError"
        /\ Malformed(proxy_url) => extracted.kind = "None"

(* C20: every candidate extract_proxy_params returns has a port between 1  *)
(* and 65535 and a decoded secret that is not empty.                       *)
C20_CandidateWellFormed ==
    (Extracted /\ extracted.kind = "tuple") =>
        /\ extracted.port \in 1..65535
        /\ extracted.secret # <<>>

(* C26: in every reachable state of run_with_reconnect backoff_time is     *)
(* BACKOFF_START or min(2 * BACKOFF_START, BACKOFF_MAX): the doubling is   *)
(* always applied to a value just reset, and every sleep of a failed       *)
(* restart lasts exactly BACKOFF_START.                                    *)
C26_BackoffNeverCompounds ==
    /\ backoff_time \in {BACKOFF_START, Min(2 * BACKOFF_START, BACKOFF_MAX)}
    /\ spc = "restart_sleep" =>
          (slept = BACKOFF_START /\ backoff_time = BACKOFF_START)

\* a restart has failed again while the backoff was doubled: the sleep
\* lasts BACKOFF_START and the session file was already gone
C26_Witness ==
    /\ spc = "restart_sleep"
    /\ slept = BACKOFF_START
    /\ ~existsSeen
    /\ raised.at = "restart"
    /\ lastError = "AuthKeyUnregisteredError"
    /\ is_authorized

(* C27: the session file is deleted only while an AuthKeyUnregisteredError *)
(* is handled: no other error, and no normal return of                     *)
(* run_until_disconnected, leads to an os.remove.                          *)
C27_DeleteOnlyOnRevocation ==
    [][(deleteCalls' > deleteCalls \/ (session_file /\ ~session_file')) =>
          /\ spc = "delete"
          /\ lastError = "AuthKeyUnregisteredError"
          /\ raised.kind = "AuthKeyUnregisteredError"
          /\ raised' = raised]_vars

\* the session file was removed after run_until_disconnected had raised
\* AuthKeyUnregisteredError
C27_Witness ==
    /\ spc = "restart"
    /\ ~session_file
    /\ deleteCalls = 1
    /\ raised.kind = "AuthKeyUnregisteredError"
    /\ raised.at = "running"

(* C28: when run_until_disconnected returns without raising, the           *)
(* supervisor is next at the top of the loop (Connecting), no sleep is     *)
(* entered, and backoff_time is what it was in Running.                    *)
C28_NormalDisconnectReconnects ==
    [][(spc \in Running /\ raised' = raised /\ spc' # spc) =>
          /\ spc' = "loop"
          /\ backoff_time' = backoff_time
          /\ slept' = slept]_vars

\* Running entered with the doubled backoff; the connection may drop now
C28_Witness ==
    /\ spc \in Running
    /\ backoff_time = 2 * BACKOFF_START
    /\ is_authorized

(* C29: handling a FloodWaitError, whatever call raised it, leaves         *)
(* backoff_time as it is: neither the step that takes the error nor the    *)
(* end of the sleep that follows changes it.                               *)
C29_FloodLeavesBackoff ==
    [][(\/ raised' # raised /\ raised'.kind = "FloodWaitError"
        \/ spc \in BackingOff /\ raised.kind = "FloodWaitError") =>
          backoff_time' = backoff_time]_vars

(* C29 as amended: handling a FloodWaitError raised in Connecting,         *)
(* Authorizing or Running leaves backoff_time as it is, from the error to  *)
(* the end of the flood-wait sleep or its cancellation; after a            *)
(* FloodWaitError raised by the restart of line 56 the sleep, when it      *)
(* ends, is followed by the doubling.                                      *)
C29_FloodInTryLeavesBackoff ==
    /\ [][(\/ /\ raised' # raised
              /\ raised'.kind = "FloodWaitError"
              /\ raised'.at \in TryBody
           \/ spc = "flood_sleep") =>
            backoff_time' = backoff_time]_vars
    /\ [][(/\ spc = "restart_sleep"
           /\ raised.kind = "FloodWaitError"
           /\ spc' = "loop") =>
            backoff_time' = Min(2 * backoff_time, BACKOFF_MAX)]_vars

\* a flood-wait sleep has ended with the doubled backoff still in place
C29_Witness ==
    /\ spc = "loop"
    /\ lastError = "FloodWaitError"
    /\ raised.kind = "FloodWaitError"
    /\ backoff_time = 2 * BACKOFF_START

\* C25: with an empty candidate list the selection returns none at once:
\* the call goes straight to its return with no result, no probe task is
\* ever created or started, and no connect attempt is made.
C25_EmptyListReturnsNone ==
    nTasks = 0 =>
        /\ pc \in {"call", "returned", "closed"}
        /\ result = <<>>
        /\ started = 0
        /\ waiting = 0
        /\ InGate = 0
        /\ Done = 0
        /\ halfOpen = 0
        /\ pc # "call" => sem = SemaphoreValue

C25_Witness ==
    /\ nTasks = 0
    /\ pc = "returned"
    /\ result = <<>>
    /\ sem = SemaphoreValue

\* a task has just ended on a CancelledError raised inside acquire()
EndsCancelledInAcquire ==
    /\ Len(completed') = Len(completed) + 1
    /\ lastEnd' = "acquire cancelled"

\* C30: once the winner has been seen and the pending tasks are cancelled,
\* no task enters connect() any more; a task cancelled while it waits for
\* a slot, inside acquire(), ends as Cancelled without taking, holding or
\* giving back a slot.
C30_CancelledWaiterNeverConnects ==
    /\ [][cancelReq => (connecting' <= connecting /\ started' = started)]_vars
    /\ [][EndsCancelledInAcquire =>
            /\ completed' = Append(completed, "Cancelled")
            /\ sem' = sem
            /\ woken' = woken
            /\ connecting' = connecting
            /\ disconnecting' = disconnecting
            /\ halfOpen' = halfOpen]_vars

(* C30 as amended: once the winner has been seen and the pending tasks are *)
(* cancelled, no task enters connect() any more; a task cancelled inside   *)
(* acquire() ends as Cancelled without a connect attempt; when it was      *)
(* still queued it takes, holds and gives back no slot, and when a         *)
(* release had already handed it a slot it gives that slot back without    *)
(* entering the gate.                                                      *)
C30_CancelledInAcquireNeverConnects ==
    /\ [][cancelReq => (connecting' <= connecting /\ started' = started)]_vars
    /\ [][EndsCancelledInAcquire =>
            /\ cancelReq
            /\ completed' = Append(completed, "Cancelled")
            /\ connecting' = connecting
            /\ disconnecting' = disconnecting
            /\ halfOpen' = halfOpen
            /\ \/ /\ waiting' = waiting - 1
                  /\ woken' = woken
                  /\ sem' = sem
               \/ /\ woken' = woken - 1
                  /\ waiting' = waiting
                  /\ sem' = sem + 1]_vars

\* the first probe succeeded and gave its slot to a queued task, which
\* started; the second failed and gave its slot to the last queued task,
\* which was cancelled before it ran
C30_Witness ==
    /\ cancelReq
    /\ nTasks = SemaphoreValue + 2
    /\ Len(completed) >= 3
    /\ completed[1] = "Success"
    /\ completed[2] = "Failure"
    /\ lastEnd = "acquire cancelled"
    /\ woken = 0
    /\ sem + connecting = SemaphoreValue

\* the bytes a text stands for in hexadecimal: its digits taken in
\* pairs, with blanks allowed around a pair and not inside one; no bytes
\* for a text with another character or with a digit left over
HexDecoding(s) ==
    LET d == SelectSeq(s, LAMBDA c : c \notin AsciiBlanks)
        digitsBefore(i) ==
            Len(SelectSeq(SubSeq(s, 1, i), LAMBDA c : c \notin AsciiBlanks))
    IN  IF /\ \A i \in 1..Len(d) : IsHexChar(d[i])
           /\ Len(d) % 2 = 0
           /\ \A i \in 1..Len(s) :
                  s[i] \in AsciiBlanks => digitsBefore(i) % 2 = 0
        THEN Bytes([i \in 1..(Len(d) \div 2) |->
                       16 * HexValue(d[2 * i - 1]) + HexValue(d[2 * i])])
        ELSE DecodeError

\* a text with every %3D in it turned back into =: the places of the text
\* in their order, without the 3 and the D of a %3D, and with = where
\* the % of a %3D stands
Restored(s) ==
    LET at(i) ==
            /\ i + 2 <= Len(s)
            /\ s[i] = "%"
            /\ s[i + 1] = "3"
            /\ s[i + 2] = "D"
        kept == SelectSeq([i \in 1..Len(s) |-> i],
                          LAMBDA i : /\ ~(i > 1 /\ at(i - 1))
                                     /\ ~(i > 2 /\ at(i - 2)))
    IN  [k \in 1..Len(kept) |-> IF at(kept[k]) THEN "=" ELSE s[kept[k]]]

(* the bytes a text of ASCII stands for in URL-safe base64: the           *)
(* characters of the alphabet, - and _ for + and /, are read in fours up  *)
(* to the = that completes the padding of a four of two or three          *)
(* characters (the second = after two, the first after three), or up to   *)
(* the end of the text when no = does; each stands for six bits, and the  *)
(* bytes are the full eights of these bits in their order.  No bytes for  *)
(* a text that ends in the middle of a four, or holds a character         *)
(* outside ASCII.                                                          *)
Base64Decoding(s) ==
    LET before(i) ==
            Cardinality({j \in 1..(i - 1) : Base64Value(s[j]) < 64})
        pads(i) ==
            Cardinality({j \in 1..i : s[j] = "=" /\ before(j) = before(i)})
        ends == {i \in 1..Len(s) : /\ s[i] = "="
                                   /\ before(i) % 4 >= 2
                                   /\ (before(i) % 4) + pads(i) >= 4}
        stop == IF ends = {} THEN Len(s) + 1
                ELSE CHOOSE i \in ends : \A j \in ends : i <= j
        data == SelectSeq(SubSeq(s, 1, stop - 1),
                          LAMBDA c : Base64Value(c) < 64)
        byte(k) ==
            LET j == ((8 * (k - 1)) \div 6) + 1
                shift == 4 - ((8 * (k - 1)) % 6)
            IN  ((64 * Base64Value(data[j]) + Base64Value(data[j + 1]))
                    \div (2 ^ shift)) % 256
    IN  IF \E i \in 1..Len(s) : ~IsAscii(s[i]) THEN DecodeError
        ELSE IF ends = {} /\ Len(data) % 4 # 0 THEN DecodeError
        ELSE Bytes([k \in 1..((6 * Len(data)) \div 8) |-> byte(k)])

\* a line of the right shape with its three fields and a numeric port
WellShaped ==
    /\ ~WrongShape(proxy_url)
    /\ ~MissingField(proxy_url)
    /\ ~NonNumericPort(proxy_url)

\* C21: for a line that parses, the secret of the candidate is the direct
\* hexadecimal decoding of the text when the text is made of hexadecimal
\* digits only and starts with dd or ee, and otherwise the URL-safe base64
\* decoding of the text with every %3D turned back into =.  (The
\* candidate carries the bytes written in hexadecimal.)
C21_SecretDecoding ==
    (xpc = "done" /\ WellShaped) =>
        LET s == QueryGet(proxy_url.secret)[1]
            hexlike ==
                /\ Len(s) >= 2
                /\ s[1] = s[2]
                /\ s[1] \in {"d", "e"}
                /\ \A k \in 1..Len(s) : IsHexChar(s[k])
            base64 == Base64Decoding(Restored(s))
        IN  extracted.kind = "tuple" =>
                /\ Len(extracted.secret) % 2 = 0
                /\ \A k \in 1..Len(extracted.secret) :
                       IsHexChar(extracted.secret[k])
                /\ HexDecoding(extracted.secret).ok
                /\ IF hexlike
                   THEN /\ Len(s) % 2 = 0
                        /\ HexDecoding(extracted.secret) = HexDecoding(s)
                   ELSE /\ base64.ok
                        /\ HexDecoding(extracted.secret) = base64

C21_Witness ==
    /\ xpc = "done"
    /\ WellShaped
    /\ QueryGet(proxy_url.secret) = << <<"d", "d", "D", "3">> >>
    /\ extracted.kind = "tuple"
    /\ extracted.secret = <<"d", "d", "d", "3">>

(* the loop of lines 106-113 over the lines ls, in their order.  A line   *)
(* that passes validation (the text starts as a proxy link does and       *)
(* nothing of it is malformed) gives its candidate, and any other line is *)
(* left out; a line that makes extract_proxy_params raise at line 111     *)
(* ends the loop, and the function, without a list.                       *)
RECURSIVE ValidCandidates(_)
ValidCandidates(ls) ==
    IF ls = <<>> THEN [raised |-> FALSE, proxy_tuples |-> <<>>]
    ELSE LET Next(before, line, info) ==
                 IF before.raised THEN before
                 ELSE IF ~IsProxyLine(line) THEN before
                 ELSE IF info.kind = "ValueError" THEN [raised |-> TRUE]
                 ELSE IF Malformed(line.url) THEN before
                 ELSE [before EXCEPT
                          !.proxy_tuples = Append(before.proxy_tuples, info)]
         IN  Next(ValidCandidates(SubSeq(ls, 1, Len(ls) - 1)),
                  ls[Len(ls)],
                  ExtractProxyParams(ls[Len(ls)].url))

\* C22: loading skips and continues: no line makes the load stop, the
\* candidates collected after any number of lines are those of the valid
\* lines among them in file order, and that list is what the scheduler
\* is called with.
C22_SkipAndContinue ==
    /\ lpc # "raised"
    /\ lpc = "lines" =>
          ValidCandidates(SubSeq(lines, 1, line_no)) =
              [raised |-> FALSE, proxy_tuples |-> proxy_tuples]
    /\ lpc = "testing" =>
          /\ ValidCandidates(lines) =
                 [raised |-> FALSE, proxy_tuples |-> proxy_tuples]
          /\ nTasks = Len(proxy_tuples)

\* C23: probing and supervision are phase-ordered.  The client is built,
\* and asyncio.run left, only when the file has been read to its end and
\* every probe task that was created has ended (cancelled ones
\* included): none is queued for a slot, none was handed one and has not
\* run, none is in connect() or disconnect().  run_with_reconnect leaves
\* its start only with the client built, and from then on no probe task
\* exists.
C23_ProbingBeforeSupervision ==
    /\ [][(lpc # "configured" /\ lpc' = "configured") =>
            /\ lpc = "closing"
            /\ spc = "idle"
            /\ spc' = "idle"
            /\ line_no = Len(lines)
            /\ started = nTasks
            /\ waiting = 0
            /\ woken = 0
            /\ connecting = 0
            /\ disconnecting = 0
            /\ Done = nTasks]_vars
    /\ [](spc # "idle" =>
            /\ lpc = "configured"
            /\ pc = "closed"
            /\ line_no = Len(lines)
            /\ nTasks = 0
            /\ started = 0
            /\ waiting = 0
            /\ woken = 0
            /\ connecting = 0
            /\ disconnecting = 0)

\* the file held more candidates than the gate admits at a time, the
\* first probe to end was chosen and the tasks left were cancelled, those
\* queued for a slot among them; the supervisor is in
\* run_until_disconnected
C23_Witness ==
    /\ spc \in Running
    /\ Len(proxy_tuples) = MaxCandidates
    /\ MaxCandidates > SemaphoreValue
    /\ connection.proxy = <<1>>

\* C24: the client is built for the candidate the scheduler returned when
\* it returned one, and for the direct connection exactly when the file
\* is missing, its lines gave no candidate, or the scheduler returned
\* none; the supervisor runs with that client.  (What the loader gives,
\* proxy_info, is the result of the scheduler, a probe that ended as
\* Success, when the scheduler was called, and None when it was not: the
\* file is missing or gave no candidate.)
C24_EndpointFromScheduler ==
    /\ [][(lpc # "closing" /\ lpc' = "closing") =>
            IF lpc = "testing"
            THEN /\ proxy_tuples # <<>>
                 /\ nTasks = Len(proxy_tuples)
                 /\ proxy_info' = result
                 /\ result # <<>> =>
                        /\ result[1] \in 1..Len(proxy_tuples)
                        /\ completed[result[1]] = "Success"
            ELSE /\ ~file_exists \/ proxy_tuples = <<>>
                 /\ nTasks = 0
                 /\ proxy_info' = <<>>]_vars
    /\ [][(lpc \in {"closing", "configured"}) =>
            (proxy_info' = proxy_info)]_vars
    /\ []((lpc = "configured" \/ spc # "idle") =>
            /\ lpc = "configured"
            /\ ~file_exists => proxy_tuples = <<>>
            /\ proxy_tuples = <<>> => proxy_info = <<>>
            /\ IF proxy_info = <<>>
               THEN connection = [type |-> "ConnectionTcpFull",
                                  proxy |-> <<>>]
               ELSE /\ connection.type =
                           "ConnectionTcpMTProxyRandomizedIntermediate"
                    /\ connection.proxy = proxy_info
                    /\ proxy_info[1] \in 1..Len(proxy_tuples))

\* of two candidates the first failed and the second was returned; the
\* supervisor runs with the client built for it
C24_Witness ==
    /\ spc \in Running
    /\ Len(proxy_tuples) = 2
    /\ connection = [type |-> "ConnectionTcpMTProxyRandomizedIntermediate",
                     proxy |-> <<2>>]

\* C32: a probe ends as Success only when its connect() and then its
\* disconnect() have returned; a probe whose connect() or disconnect()
\* raises ends as Failure; and the candidate the scheduler returns is
\* that of a probe that ended as Success.
C32_SuccessNeedsBothCalls ==
    /\ (completed = <<>>) <=> (lastEnd = "none")
    /\ completed # <<>> =>
          LET last == completed[Len(completed)]
          IN  /\ (last = "Success") <=> (lastEnd = "disconnect returned")
              /\ lastEnd \in {"connect raised", "disconnect raised"} =>
                     last = "Failure"
    /\ result # <<>> =>
          /\ result[1] \in 1..Len(completed)
          /\ completed[result[1]] = "Success"

C32_Witness ==
    /\ pc = "returned"
    /\ nTasks = 1
    /\ completed = <<"Failure">>
    /\ lastEnd = "disconnect raised"
    /\ result = <<>>

\* C31: the endpoint chosen at start-up stays: once the client is built
\* its connection never changes, and no step of run_with_reconnect, from
\* its first on and whatever error it handles, touches the connection,
\* the file loading or the probe scheduler, which stays closed.
C31_EndpointFixed ==
    /\ [][lpc = "configured" =>
            (lpc' = "configured" /\ connection' = connection)]_vars
    /\ [][(spc # "idle" \/ spc' # "idle") =>
            /\ pc = "closed"
            /\ connection = ConnectionFor(proxy_info)
            /\ UNCHANGED <<probeVars, loadVars>>]_vars

C31_Witness ==
    /\ spc \in Running
    /\ backoff_time = 2 * BACKOFF_START
    /\ raised.at = "restart"
    /\ connection = [type |-> "ConnectionTcpMTProxyRandomizedIntermediate",
                     proxy |-> <<1>>]

=============================================================================
